---- MODULE Spec2Model ----
(***************************************************************************)
(* Worktree lifecycle and execution coordination of automaker:             *)
(*   - POST /create-pr   (createCreatePRHandler, src/unnamed/part_003)     *)
(*   - board projection  (useBoardColumnFeatures, src/unnamed/part_001)    *)
(*   - POST /list        (createListHandler, src/unnamed/part_002)         *)
(*   - POST /create      (createCreateHandler, src/unnamed/part_002)       *)
(*   - POST /run-feature (createRunFeatureHandler, run-feature.ts)         *)
(*   - the publish dialog (CreatePRDialog, create-pr-dialog.tsx)           *)
(*                                                                         *)
(* Text is a sequence of tokens.  A token is a run of characters that the  *)
(* code's regular expressions and string methods never split: a single     *)
(* character where the code works character by character (branch names in  *)
(* /create, commit hashes), a longer run elsewhere ("github.com", "org").   *)
(* Joining the tokens of a sequence gives the JavaScript string.           *)
(***************************************************************************)
EXTENDS Integers, Sequences, FiniteSets, TLC

VARIABLES
    \* ---- POST /create-pr: one entry per handler invocation -------------
    pc,            \* position of the handler in its code
    body,          \* req.body
    branchName,    \* const branchName      (line 52)
    hasChanges,    \* const hasChanges      (line 59)
    commitHash,    \* let commitHash        (line 62)
    pushError,     \* let pushError         (line 84)
    prUrl,         \* let prUrl             (line 120)
    prError,       \* let prError           (line 121)
    upstreamRepo,  \* let upstreamRepo      (line 127)
    originOwner,   \* let originOwner       (line 128)
    remoteCfg,     \* the remotes configured in the worktree's repository
    cmds,          \* every external command run so far, in order
    responses,     \* every HTTP response sent so far, in order
    \* ---- useBoardColumnFeatures: the props and the memoized map ---------
    features,          \* features: Feature[]
    runningAutoTasks,  \* runningAutoTasks: string[]
    searchQuery,       \* searchQuery: string
    currentWorktree,   \* currentWorktree: string | null
    columnFeaturesMap, \* the value of the useMemo of lines 20-84
    projection,        \* "pending", "done", or "threw" if the callback threw
    \* ---- the project directory, as /list and /create find it ------------
    isRepo,        \* isGitRepo(projectPath)
    records,       \* the worktrees git knows, as git worktree list prints them
    \* ---- POST /list -----------------------------------------------------
    lpc,           \* position of the handler in its code
    lbody,         \* req.body
    worktrees,     \* const worktrees      (part_002 line 43)
    wtIndex,       \* the entry the loop of line 68 is at
    \* ---- POST /create: one entry per handler invocation -----------------
    cpc,           \* position of the handler in its code
    cbody,         \* req.body
    sanitizedName, \* const sanitizedName  (part_002 line 146)
    branchExists,  \* let branchExists     (part_002 line 166)
    \* ---- the project directory and its repository -----------------------
    worktreesDir,  \* <project>/.worktrees exists
    dirs,          \* the directories under <project>/.worktrees
    branches,      \* the branches of the repository
    checkedOut,    \* the branch git has bound to each worktree directory
    automakerDir,  \* <project>/.automaker exists
    links,         \* the worktree directories with a .automaker link
    \* ---- POST /run-feature ----------------------------------------------
    rpc,           \* position of the handler in its code
    rbody,         \* req.body
    execCalls,     \* the calls of autoModeService.executeFeature
    execState,     \* the promise executeFeature returned
    errorLog,      \* what logger.error was given
    \* ---- CreatePRDialog.handleCreate -----------------------------------
    dpc,            \* position of the handler in its code
    dialogResult,   \* const result        (create-pr-dialog.tsx line 76)
    dialogError,    \* the error state     (setError)
    dialogPrUrl,    \* the prUrl state     (setPrUrl)
    isLoading,      \* the isLoading state (setIsLoading)
    toasts,         \* the toasts shown so far, in order
    dialogOpen,     \* the open prop, as onOpenChange leaves it
    onCreatedCalls  \* the calls of onCreated

pubVars == << pc, body, branchName, hasChanges, commitHash, pushError, prUrl,
              prError, upstreamRepo, originOwner, remoteCfg >>

logVars == << cmds, responses >>

boardVars == << features, runningAutoTasks, searchQuery, currentWorktree,
                columnFeaturesMap, projection >>

listVars == << isRepo, records, lpc, lbody, worktrees, wtIndex >>

createVars == << cpc, cbody, sanitizedName, branchExists, worktreesDir, dirs,
                 branches, checkedOut, automakerDir, links >>

runVars == << rpc, rbody, execCalls, execState, errorLog >>

dialogVars == << dpc, dialogResult, dialogError, dialogPrUrl, isLoading,
                 toasts, dialogOpen, onCreatedCalls >>

vars == << pubVars, logVars, boardVars, listVars, createVars, runVars,
           dialogVars >>

\* what the steps of one part leave alone of the others
notPublish == << boardVars, listVars, createVars, runVars, dialogVars >>
notBoard == << pubVars, logVars, listVars, createVars, runVars, dialogVars >>
notList == << pubVars, boardVars, createVars, runVars, dialogVars >>
notCreate == << pubVars, boardVars, records, lpc, lbody, worktrees, wtIndex,
                runVars, dialogVars >>
notRun == << pubVars, cmds, boardVars, listVars, createVars, dialogVars >>
notDialog == << pubVars, logVars, boardVars, listVars, createVars, runVars >>

----------------------------------------------------------------------------
\* JavaScript values

\* null and undefined, kept apart from every string (and from the empty one)
Null == << "<null>" >>
Undefined == << "<undefined>" >>

\* ToBoolean of a string-or-null value: null, undefined and "" are falsy
Truthy(s) == s \notin { Null, Undefined, << >> }

\* a || b
Or(a, b) == IF Truthy(a) THEN a ELSE b

\* whitespace tokens (\s of a regular expression, what trim() strips)
Space == { " ", "\t", "\n" }

\* String.prototype.trim
RECURSIVE TrimLeft(_)
TrimLeft(s) ==
    IF s # << >> /\ Head(s) \in Space THEN TrimLeft(Tail(s)) ELSE s

RECURSIVE TrimRight(_)
TrimRight(s) ==
    IF s # << >> /\ s[Len(s)] \in Space
        THEN TrimRight(SubSeq(s, 1, Len(s) - 1))
        ELSE s

Trim(s) == TrimRight(TrimLeft(s))

\* String.prototype.substring(0, n)
Substring0(s, n) == SubSeq(s, 1, IF Len(s) < n THEN Len(s) ELSE n)

\* s.replace(/"/g, '\\"')
EscapeQuotes(s) ==
    [ i \in 1..Len(s) |-> IF s[i] = "\"" THEN "\\\"" ELSE s[i] ]

----------------------------------------------------------------------------
\* Fork detection: the two regular expressions of part_003, lines 138 and 142

\* the tokens made of word characters only (\w+)
WordTokens ==
    { "origin", "upstream", "org", "repo", "alice", "https", "srv" }

NoneIn(L, a, b, S) == \A x \in a..b : L[x] \notin S
AllIn(L, a, b, S) == \A x \in a..b : L[x] \in S

\* a >= b in the lexicographic order of two integer tuples of one length
RECURSIVE LexGE(_, _)
LexGE(a, b) ==
    \/ a = << >>
    \/ Head(a) > Head(b)
    \/ Head(a) = Head(b) /\ LexGE(Tail(a), Tail(b))

\* The ways  ([^/]+)\/([^/\s]+?)(?:\.git)?\s+\(fetch\)  matches L right after
\* position i: the owner is L[i+1..j-1], L[j] is the slash, the repository
\* name is L[j+1..k], git tells whether (?:\.git)? took a ".git", and the
\* white space ends at e, followed by "(fetch)".
TailMatches(L, i) ==
    LET n == Len(L) IN
    UNION { UNION { { [ j |-> j, k |-> k, git |-> ge[1], e |-> ge[2] ] :
                      ge \in { x \in BOOLEAN \X ((k + 1)..(n - 1)) :
                                 LET a == IF x[1] THEN k + 1 ELSE k IN
                                 /\ x[1] => L[k + 1] = ".git"
                                 /\ x[2] > a
                                 /\ AllIn(L, a + 1, x[2], Space)
                                 /\ L[x[2] + 1] = "(fetch)" } } :
                    k \in { y \in (j + 1)..n :
                              NoneIn(L, j + 1, y, Space \cup { "/" }) } } :
            j \in { z \in (i + 2)..n :
                      L[z] = "/" /\ NoneIn(L, i + 1, z - 1, { "/" }) } }

\* The order in which the backtracking matcher tries them: [^/]+ greedy (the
\* longest owner first), [^/\s]+? lazy (the shortest name first), (?:\.git)?
\* and \s+ greedy.
TailKey(m) == << m.j, 0 - m.k, IF m.git THEN 1 ELSE 0, m.e >>

BestTail(L, i) ==
    CHOOSE m \in TailMatches(L, i) :
        \A m2 \in TailMatches(L, i) : LexGE(TailKey(m), TailKey(m2))

\* line.match(/^(\w+)\s+.*[:/]([^/]+)\/([^/\s]+?)(?:\.git)?\s+\(fetch\)/):
\* the positions (s, i) at which \s+ ends and [:/] stands.  A remote name is
\* one token, so ^(\w+)\s+ asks for a word token followed by white space.
ForkMatchStarts(L) ==
    IF Len(L) < 2 \/ L[1] \notin WordTokens THEN { }
    ELSE UNION { { << s, i >> :
                     i \in { x \in (s + 1)..Len(L) :
                               L[x] \in { ":", "/" } /\ TailMatches(L, x) # { } } } :
                 s \in { y \in 2..Len(L) : AllIn(L, 2, y, Space) } }

\* the match the matcher returns: \s+ and .* are greedy
ForkMatch(L) ==
    LET S == ForkMatchStarts(L)
        si == CHOOSE a \in S : \A b \in S : LexGE(a, b)
        m == BestTail(L, si[2])
    IN  [ remoteName |-> L[1], owner |-> SubSeq(L, si[2] + 1, m.j - 1) ]

\* line.match(/[:/]([^/]+\/[^/\s]+?)(?:\.git)?\s+\(fetch\)/)?.[1] || null:
\* not anchored, so the leftmost position that matches wins
UpstreamRepoOf(L) ==
    LET S == { i \in 1..Len(L) :
                 L[i] \in { ":", "/" } /\ TailMatches(L, i) # { } }
    IN  IF S = { } THEN Null
        ELSE LET i == CHOOSE a \in S : \A b \in S : a <= b
                 m == BestTail(L, i)
             IN  Or(SubSeq(L, i + 1, m.k), Null)

\* for (const line of lines) { ... }: the loop of lines 137-147 over the lines
\* from position n on, st = [upstreamRepo, originOwner]
RECURSIVE ParseRemotes(_, _, _)
ParseRemotes(lines, n, st) ==
    IF n > Len(lines) THEN st
    ELSE LET line == lines[n] IN
         IF ForkMatchStarts(line) = { } THEN ParseRemotes(lines, n + 1, st)
         ELSE LET match == ForkMatch(line) IN
              IF match.remoteName = "upstream"
                  THEN ParseRemotes(lines, n + 1,
                           [ st EXCEPT !.upstreamRepo = UpstreamRepoOf(line) ])
              ELSE IF match.remoteName = "origin"
                  THEN ParseRemotes(lines, n + 1,
                           [ st EXCEPT !.originOwner = match.owner ])
              ELSE ParseRemotes(lines, n + 1, st)

----------------------------------------------------------------------------
\* The repository's remotes and what `git remote -v` prints for them

\* the URL of owner/name in one of the forms git accepts
RemoteUrl(form, owner, name) ==
    CASE form = "https" ->
            << "https", ":", "/", "/", "github.com", "/", owner, "/", name >>
      [] form = "https.git" ->
            << "https", ":", "/", "/", "github.com", "/", owner, "/", name, ".git" >>
      [] form = "ssh.git" ->
            << "git@github.com", ":", owner, "/", name, ".git" >>
      [] form = "bare" ->
            << "git@githost", ":", name, ".git" >>

UrlForms == { "https", "https.git", "ssh.git" }

NoRemote == [ present |-> FALSE, form |-> "", owner |-> "" ]

\* origin is absent, a repository of alice, or a repository with no owner in
\* its URL; upstream is absent or org/repo
RemoteCfgs ==
    [ origin : { NoRemote, [ present |-> TRUE, form |-> "bare", owner |-> "" ] }
                 \cup { [ present |-> TRUE, form |-> f, owner |-> "alice" ] :
                          f \in UrlForms },
      upstream : { NoRemote }
                 \cup { [ present |-> TRUE, form |-> f, owner |-> "org" ] :
                          f \in UrlForms } ]

RemoteLinesOf(name, r) ==
    IF ~r.present THEN << >>
    ELSE LET url == RemoteUrl(r.form, r.owner, "repo") IN
         << << name, "\t" >> \o url \o << " ", "(fetch)" >>,
            << name, "\t" >> \o url \o << " ", "(push)" >> >>

\* remotes.split("\n"): two lines a remote, and the empty string that follows
\* the last line feed
RemoteLines(cfg) ==
    RemoteLinesOf("origin", cfg.origin)
        \o RemoteLinesOf("upstream", cfg.upstream) \o << << >> >>

----------------------------------------------------------------------------
\* POST /create-pr (createCreatePRHandler)

\* the invocations of a handler that may be in progress together
Procs == { 1, 2 }

\* one-token text
T(tok) == << tok >>

WorktreePaths == { T("/repo/.worktrees/feature") }

\* req.body: worktreePath may be missing, the options may be left out
Bodies ==
    [ worktreePath : WorktreePaths \cup { Undefined },
      commitMessage : { Undefined, << "say ", "\"", "hi", "\"" >> },
      prTitle : { Undefined, T("Title") },
      prBody : { Undefined },
      baseBranch : { Undefined, T("develop") },
      draft : BOOLEAN ]

\* what the external commands may print
BranchOutputs == { << "feature", "\n" >>, << "HEAD", "\n" >> }
StatusOutputs == { << >>, << " M ", "file", "\n" >> }
HashOutputs ==
    { << "3", "f", "a", "9", "0", "c", "1", "d", "7", "e", "2", "b", "4",
         "a", "6", "8", "5", "0", "f", "1", "c", "3", "e", "9", "d", "2",
         "7", "b", "0", "a", "4", "6", "8", "5", "1", "f", "c", "e", "3",
         "9", "\n" >> }
PrOutputs ==
    { << "https", ":", "/", "/", "github.com", "/", "org", "/", "repo",
         "/", "pull", "/", "1", "\n" >>,
      << >> }

\* what a failed exec rejects with: child_process puts "Command failed: ..."
\* in message, stderr is the tool's own output and may be empty
ExecErrors ==
    [ stderr : { << >>, T("fatal: rejected") }, message : { T("Command failed") } ]

\* short commit hash length, substring(0, 8)
HashLen == 8

\* a command as it is run: the invocation that runs it, the words of the
\* command line, and whether it exited with success
Cmd(p, argv, ok) == [ proc |-> p, argv |-> argv, ok |-> ok ]

Words(ws) == [ i \in 1..Len(ws) |-> T(ws[i]) ]

GitRevParseBranch == Words(<< "git", "rev-parse", "--abbrev-ref", "HEAD" >>)
GitStatus == Words(<< "git", "status", "--porcelain" >>)
GitAdd == Words(<< "git", "add", "-A" >>)
GitCommit(message) ==
    Words(<< "git", "commit", "-m" >>) \o << EscapeQuotes(message) >>
GitRevParseHead == Words(<< "git", "rev-parse", "HEAD" >>)
GitPush(branch) ==
    Words(<< "git", "push", "-u", "origin" >>) \o << branch >>
GitPushSetUpstream(branch) ==
    Words(<< "git", "push", "--set-upstream", "origin" >>) \o << branch >>
CommandVGh == Words(<< "command", "-v", "gh" >>)
GitRemoteV == Words(<< "git", "remote", "-v" >>)

\* PrCmd with the head of a fork left unqualified
PrCmdBareHead(b, branch, upRepo, owner) ==
    Words(<< "gh", "pr", "create", "--base" >>)
        \o << Or(b.baseBranch, T("main")) >>
        \o ( IF Truthy(upRepo) /\ Truthy(owner)
               THEN << T("--repo"), upRepo, T("--head"), branch >>
               ELSE << T("--head"), branch >> )
        \o << T("--title"), EscapeQuotes(Or(b.prTitle, branch)),
              T("--body"),
              EscapeQuotes(Or(b.prBody, << "Changes from branch " >> \o branch)) >>
        \o ( IF b.draft THEN << T("--draft") >> ELSE << >> )

\* lines 115-118 and 153-165: the gh pr create command line
PrCmd(b, branch, upRepo, owner) ==
    LET base == Or(b.baseBranch, T("main"))
        title == Or(b.prTitle, branch)
        text == Or(b.prBody, << "Changes from branch " >> \o branch)
    IN  Words(<< "gh", "pr", "create", "--base" >>) \o << base >>
        \o ( IF Truthy(upRepo) /\ Truthy(owner)
               THEN << T("--repo"), upRepo, T("--head"),
                       owner \o << ":" >> \o branch >>
               ELSE << T("--head"), branch >> )
        \o << T("--title"), EscapeQuotes(title),
              T("--body"), EscapeQuotes(text) >>
        \o ( IF b.draft THEN << T("--draft") >> ELSE << >> )

\* a response: res.status(code).json(...)
NoResult == << >>
Failure(p, code, error) ==
    [ proc |-> p, status |-> code, success |-> FALSE, error |-> error,
      result |-> NoResult ]
Success(p, result) ==
    [ proc |-> p, status |-> 200, success |-> TRUE, error |-> Undefined,
      result |-> result ]

\* PublicationResult with prCreated for every prUrl but null
PublicationResultUrlNotNull(p, url, err) ==
    [ branch |-> branchName[p],
      committed |-> hasChanges[p],
      commitHash |-> commitHash[p],
      pushed |-> TRUE,
      prUrl |-> url,
      prCreated |-> url # Null,
      prError |-> Or(err, Undefined) ]

\* lines 181-192
PublicationResult(p, url, err) ==
    [ branch |-> branchName[p],
      committed |-> hasChanges[p],
      commitHash |-> commitHash[p],
      pushed |-> TRUE,
      prUrl |-> url,
      prCreated |-> Truthy(url),
      prError |-> Or(err, Undefined) ]

\* err.stderr || err.message || fallback
ErrorText(err, fallback) == Or(err.stderr, Or(err.message, fallback))

\* getErrorMessage(error) of the outer catch
ErrorMessage(err) == err.message

PublishInit ==
    /\ pc = [ p \in Procs |-> "idle" ]
    /\ body = [ p \in Procs |-> [ worktreePath |-> Undefined ] ]
    /\ branchName = [ p \in Procs |-> Undefined ]
    /\ hasChanges = [ p \in Procs |-> FALSE ]
    /\ commitHash = [ p \in Procs |-> Null ]
    /\ pushError = [ p \in Procs |-> Null ]
    /\ prUrl = [ p \in Procs |-> Null ]
    /\ prError = [ p \in Procs |-> Null ]
    /\ upstreamRepo = [ p \in Procs |-> Null ]
    /\ originOwner = [ p \in Procs |-> Null ]
    /\ remoteCfg \in RemoteCfgs
    /\ cmds = << >>
    /\ responses = << >>

\* RequestWith answering 400 for a missing worktreePath without returning
RequestWithoutReturn(p, bodies) ==
    /\ pc[p] = "idle"
    /\ \E b \in bodies :
        /\ body' = [ body EXCEPT ![p] = b ]
        /\ responses' =
               IF ~Truthy(b.worktreePath)
                   THEN Append(responses,
                            Failure(p, 400, T("worktreePath required")))
                   ELSE responses
    /\ pc' = [ pc EXCEPT ![p] = "rev-parse" ]
    /\ UNCHANGED notPublish
    /\ UNCHANGED << branchName, hasChanges, commitHash, pushError, prUrl,
                    prError, upstreamRepo, originOwner, remoteCfg, cmds >>

\* lines 30-45: the request arrives with one of the given bodies; a missing
\* worktreePath is answered 400
RequestWith(p, bodies) ==
    /\ pc[p] = "idle"
    /\ \E b \in bodies :
        /\ body' = [ body EXCEPT ![p] = b ]
        /\ IF ~Truthy(b.worktreePath)
             THEN /\ responses' = Append(responses,
                          Failure(p, 400, T("worktreePath required")))
                  /\ pc' = [ pc EXCEPT ![p] = "done" ]
             ELSE /\ pc' = [ pc EXCEPT ![p] = "rev-parse" ]
                  /\ UNCHANGED responses
    /\ UNCHANGED notPublish
    /\ UNCHANGED << branchName, hasChanges, commitHash, pushError, prUrl,
                    prError, upstreamRepo, originOwner, remoteCfg, cmds >>

\* Catch logging the failure and going on to the push
CatchGoesOn(p, argv) ==
    /\ cmds' = Append(cmds, Cmd(p, argv, FALSE))
    /\ pc' = [ pc EXCEPT ![p] = "push" ]
    /\ UNCHANGED responses

\* lines 30-45: the request arrives
Request(p) == RequestWith(p, Bodies)

\* lines 193-196: a command outside the inner try blocks failed
Catch(p, argv) ==
    /\ \E err \in ExecErrors :
        responses' = Append(responses, Failure(p, 500, ErrorMessage(err)))
    /\ cmds' = Append(cmds, Cmd(p, argv, FALSE))
    /\ pc' = [ pc EXCEPT ![p] = "done" ]

\* lines 47-52
RevParseBranch(p) ==
    /\ pc[p] = "rev-parse"
    /\ \/ /\ \E out \in BranchOutputs :
               branchName' = [ branchName EXCEPT ![p] = Trim(out) ]
          /\ cmds' = Append(cmds, Cmd(p, GitRevParseBranch, TRUE))
          /\ pc' = [ pc EXCEPT ![p] = "status" ]
          /\ UNCHANGED responses
       \/ Catch(p, GitRevParseBranch) /\ UNCHANGED branchName
    /\ UNCHANGED notPublish /\ UNCHANGED << body, hasChanges, commitHash, pushError, prUrl, prError,
                    upstreamRepo, originOwner, remoteCfg >>

\* Status going on to git add whatever git status printed
StatusAlwaysStages(p) ==
    /\ pc[p] = "status"
    /\ \/ /\ \E out \in StatusOutputs :
               hasChanges' = [ hasChanges EXCEPT ![p] = Len(Trim(out)) > 0 ]
          /\ pc' = [ pc EXCEPT ![p] = "add" ]
          /\ cmds' = Append(cmds, Cmd(p, GitStatus, TRUE))
          /\ UNCHANGED responses
       \/ Catch(p, GitStatus) /\ UNCHANGED hasChanges
    /\ UNCHANGED notPublish
    /\ UNCHANGED << body, branchName, commitHash, pushError, prUrl, prError,
                    upstreamRepo, originOwner, remoteCfg >>

\* lines 54-63
Status(p) ==
    /\ pc[p] = "status"
    /\ \/ /\ \E out \in StatusOutputs :
               LET changes == Len(Trim(out)) > 0 IN
               /\ hasChanges' = [ hasChanges EXCEPT ![p] = changes ]
               /\ pc' = [ pc EXCEPT ![p] = IF changes THEN "add" ELSE "push" ]
          /\ cmds' = Append(cmds, Cmd(p, GitStatus, TRUE))
          /\ UNCHANGED responses
       \/ Catch(p, GitStatus) /\ UNCHANGED hasChanges
    /\ UNCHANGED notPublish /\ UNCHANGED << body, branchName, commitHash, pushError, prUrl, prError,
                    upstreamRepo, originOwner, remoteCfg >>

\* lines 66-67
Add(p) ==
    /\ pc[p] = "add"
    /\ \/ /\ cmds' = Append(cmds, Cmd(p, GitAdd, TRUE))
          /\ pc' = [ pc EXCEPT ![p] = "commit" ]
          /\ UNCHANGED responses
       \/ Catch(p, GitAdd)
    /\ UNCHANGED notPublish /\ UNCHANGED << body, branchName, hasChanges, commitHash, pushError,
                    prUrl, prError, upstreamRepo, originOwner, remoteCfg >>

\* lines 64 and 69-73
Commit(p) ==
    LET message ==
            Or(body[p].commitMessage, << "Changes from " >> \o branchName[p])
    IN  /\ pc[p] = "commit"
        /\ \/ /\ cmds' = Append(cmds, Cmd(p, GitCommit(message), TRUE))
              /\ pc' = [ pc EXCEPT ![p] = "hash" ]
              /\ UNCHANGED responses
           \/ Catch(p, GitCommit(message))
        /\ UNCHANGED notPublish /\ UNCHANGED << body, branchName, hasChanges, commitHash, pushError,
                        prUrl, prError, upstreamRepo, originOwner, remoteCfg >>

\* lines 75-80
RevParseHead(p) ==
    /\ pc[p] = "hash"
    /\ \/ /\ \E out \in HashOutputs :
               commitHash' =
                   [ commitHash EXCEPT ![p] = Substring0(Trim(out), HashLen) ]
          /\ cmds' = Append(cmds, Cmd(p, GitRevParseHead, TRUE))
          /\ pc' = [ pc EXCEPT ![p] = "push" ]
          /\ UNCHANGED responses
       \/ Catch(p, GitRevParseHead) /\ UNCHANGED commitHash
    /\ UNCHANGED notPublish /\ UNCHANGED << body, branchName, hasChanges, pushError, prUrl, prError,
                    upstreamRepo, originOwner, remoteCfg >>

\* Push followed by the second push whatever its outcome
PushRetryAlways(p) ==
    /\ pc[p] = "push"
    /\ \E ok \in BOOLEAN :
        /\ cmds' = Append(cmds, Cmd(p, GitPush(branchName[p]), ok))
        /\ pc' = [ pc EXCEPT ![p] = "push2" ]
    /\ UNCHANGED notPublish /\ UNCHANGED << body, branchName, hasChanges, commitHash, pushError,
                    prUrl, prError, upstreamRepo, originOwner, remoteCfg,
                    responses >>

\* lines 83-90: the plain push; its failure leads to the second push
Push(p) ==
    /\ pc[p] = "push"
    /\ \E ok \in BOOLEAN :
        /\ cmds' = Append(cmds, Cmd(p, GitPush(branchName[p]), ok))
        /\ pc' = [ pc EXCEPT ![p] = IF ok THEN "gh" ELSE "push2" ]
    /\ UNCHANGED notPublish /\ UNCHANGED << body, branchName, hasChanges, commitHash, pushError,
                    prUrl, prError, upstreamRepo, originOwner, remoteCfg,
                    responses >>

\* AfterPush going on to the pull request whatever pushError holds
AfterPushUnchecked(p, pe) ==
    /\ pc' = [ pc EXCEPT ![p] = "gh" ]
    /\ UNCHANGED responses

\* what lines 105-112 do with pushError once the push step is over
AfterPush(p, pe) ==
    IF Truthy(pe)
        THEN /\ responses' = Append(responses,
                     Failure(p, 500, << "Failed to push branch: " >> \o pe))
             /\ pc' = [ pc EXCEPT ![p] = "done" ]
        ELSE /\ pc' = [ pc EXCEPT ![p] = "gh" ]
             /\ UNCHANGED responses

\* lines 91-112: the push with --set-upstream
PushSetUpstream(p) ==
    /\ pc[p] = "push2"
    /\ \/ /\ cmds' = Append(cmds, Cmd(p, GitPushSetUpstream(branchName[p]), TRUE))
          /\ AfterPush(p, pushError[p])
          /\ UNCHANGED pushError
       \/ \E err \in ExecErrors :
            LET pe == ErrorText(err, T("Push failed")) IN
            /\ cmds' = Append(cmds,
                   Cmd(p, GitPushSetUpstream(branchName[p]), FALSE))
            /\ pushError' = [ pushError EXCEPT ![p] = pe ]
            /\ AfterPush(p, pe)
    /\ UNCHANGED notPublish /\ UNCHANGED << body, branchName, hasChanges, commitHash, prUrl, prError,
                    upstreamRepo, originOwner, remoteCfg >>

\* GhCatch answering with the failure envelope
GhCatchFatal(p, err) ==
    /\ prError' = [ prError EXCEPT ![p] = ErrorText(err, T("PR creation failed")) ]
    /\ responses' = Append(responses, Failure(p, 500, ErrorMessage(err)))
    /\ pc' = [ pc EXCEPT ![p] = "done" ]

\* lines 173-192: the catch of the gh block, and the response
GhCatch(p, err) ==
    LET pe == ErrorText(err, T("PR creation failed")) IN
    /\ prError' = [ prError EXCEPT ![p] = pe ]
    /\ responses' = Append(responses,
           Success(p, PublicationResult(p, prUrl[p], pe)))
    /\ pc' = [ pc EXCEPT ![p] = "done" ]

\* line 124: is gh there?
ProbeGh(p) ==
    /\ pc[p] = "gh"
    /\ \/ /\ cmds' = Append(cmds, Cmd(p, CommandVGh, TRUE))
          /\ pc' = [ pc EXCEPT ![p] = "remote" ]
          /\ UNCHANGED << prError, responses >>
       \/ /\ cmds' = Append(cmds, Cmd(p, CommandVGh, FALSE))
          /\ \E err \in { e \in ExecErrors : e.stderr = << >> } : GhCatch(p, err)
    /\ UNCHANGED notPublish /\ UNCHANGED << body, branchName, hasChanges, commitHash, pushError,
                    prUrl, upstreamRepo, originOwner, remoteCfg >>

\* lines 126-150: fork detection; a failure of git remote is swallowed
Remotes(p) ==
    /\ pc[p] = "remote"
    /\ \/ LET st == ParseRemotes(RemoteLines(remoteCfg), 1,
                        [ upstreamRepo |-> Null, originOwner |-> Null ])
          IN  /\ upstreamRepo' = [ upstreamRepo EXCEPT ![p] = st.upstreamRepo ]
              /\ originOwner' = [ originOwner EXCEPT ![p] = st.originOwner ]
              /\ cmds' = Append(cmds, Cmd(p, GitRemoteV, TRUE))
       \/ /\ cmds' = Append(cmds, Cmd(p, GitRemoteV, FALSE))
          /\ UNCHANGED << upstreamRepo, originOwner >>
    /\ pc' = [ pc EXCEPT ![p] = "pr" ]
    /\ UNCHANGED notPublish /\ UNCHANGED << body, branchName, hasChanges, commitHash, pushError,
                    prUrl, prError, remoteCfg, responses >>

\* lines 152-192: gh pr create, and the response
CreatePr(p) ==
    LET prCmd == PrCmd(body[p], branchName[p], upstreamRepo[p], originOwner[p])
    IN  /\ pc[p] = "pr"
        /\ \/ \E out \in PrOutputs :
                /\ cmds' = Append(cmds, Cmd(p, prCmd, TRUE))
                /\ prUrl' = [ prUrl EXCEPT ![p] = Trim(out) ]
                /\ responses' = Append(responses,
                       Success(p, PublicationResult(p, Trim(out), prError[p])))
                /\ pc' = [ pc EXCEPT ![p] = "done" ]
                /\ UNCHANGED prError
           \/ /\ cmds' = Append(cmds, Cmd(p, prCmd, FALSE))
              /\ \E err \in ExecErrors : GhCatch(p, err)
              /\ UNCHANGED prUrl
        /\ UNCHANGED notPublish /\ UNCHANGED << body, branchName, hasChanges, commitHash, pushError,
                        upstreamRepo, originOwner, remoteCfg >>

Publish(p) ==
    \/ Request(p)
    \/ RevParseBranch(p)
    \/ Status(p)
    \/ Add(p)
    \/ Commit(p)
    \/ RevParseHead(p)
    \/ Push(p)
    \/ PushSetUpstream(p)
    \/ ProbeGh(p)
    \/ Remotes(p)
    \/ CreatePr(p)

\* the commands two concurrent invocations are followed for
MaxCmds == 6

\* req.body of requests that publish the same worktree with the defaults
SamePathBodies ==
    { [ worktreePath |-> T("/repo/.worktrees/feature"),
        commitMessage |-> Undefined, prTitle |-> Undefined,
        prBody |-> Undefined, baseBranch |-> Undefined, draft |-> FALSE ] }

\* lines 47-192: the steps of invocation p after the arrival of its request
PublishSteps(p) ==
    \/ RevParseBranch(p)
    \/ Status(p)
    \/ Add(p)
    \/ Commit(p)
    \/ RevParseHead(p)
    \/ Push(p)
    \/ PushSetUpstream(p)
    \/ ProbeGh(p)
    \/ Remotes(p)
    \/ CreatePr(p)

\* index.ts lines 19-36: the router hands every request to its handler at
\* once, so the steps of two invocations of /create-pr come in any order
PublishTwoNext ==
    \/ RequestWith(1, SamePathBodies)
    \/ RequestWith(2, SamePathBodies)
    \/ Len(cmds) < MaxCmds /\ PublishSteps(1)
    \/ Len(cmds) < MaxCmds /\ PublishSteps(2)

----------------------------------------------------------------------------
\* Properties of /create-pr

IsPush(c) == c.argv \in { GitPush(b) : b \in { Trim(o) : o \in BranchOutputs } }
IsPushSetUpstream(c) ==
    c.argv \in { GitPushSetUpstream(b) : b \in { Trim(o) : o \in BranchOutputs } }
IsProbe(c) == c.argv = CommandVGh
IsPrCreate(c) == c.argv[1] = T("gh")
IsRemoteV(c) == c.argv = GitRemoteV

\* the value that follows `flag` on a command line
FlagValue(argv, flag) ==
    argv[(CHOOSE i \in 1..Len(argv) : argv[i] = T(flag)) + 1]
HasFlag(argv, flag) == \E i \in 1..Len(argv) : argv[i] = T(flag)

ResponsesOf(p) == SelectSeq(responses, LAMBDA r : r.proc = p)

\* both pushes of invocation p have failed
BothPushesFailed(p) ==
    \E i \in 1..Len(cmds) :
        cmds[i].proc = p /\ IsPushSetUpstream(cmds[i]) /\ ~cmds[i].ok

\* C1: the gh probe and gh pr create run only after a push of the same
\* invocation has succeeded; once both pushes have failed the invocation has
\* answered 500 with success:false, has run no gh command and has returned no
\* success result (so none with prCreated = true).
C1_NoPrWithoutPush ==
    /\ \A i \in 1..Len(cmds) :
         IsProbe(cmds[i]) \/ IsPrCreate(cmds[i]) =>
            \E j \in 1..(i - 1) :
                /\ cmds[j].proc = cmds[i].proc
                /\ IsPush(cmds[j]) \/ IsPushSetUpstream(cmds[j])
                /\ cmds[j].ok
    /\ \A p \in Procs :
         BothPushesFailed(p) =>
            /\ \A i \in 1..Len(cmds) :
                 cmds[i].proc = p => ~IsProbe(cmds[i]) /\ ~IsPrCreate(cmds[i])
            /\ Len(ResponsesOf(p)) = 1
            /\ ResponsesOf(p)[1].status = 500
            /\ ~ResponsesOf(p)[1].success

\* both pushes failed and the request has been answered
C1_Witness == BothPushesFailed(1) /\ pc[1] = "done"

\* the gh probe of invocation p failed: gh is not installed
GhAbsent(p) ==
    \E i \in 1..Len(cmds) : cmds[i].proc = p /\ IsProbe(cmds[i]) /\ ~cmds[i].ok

\* C2: when the push succeeded and gh is absent, the result is pushed = true,
\* prCreated = false and prError undefined.
C2_GhAbsentNoError ==
    \A i \in 1..Len(responses) :
        LET r == responses[i] IN
        r.success /\ GhAbsent(r.proc) =>
            /\ r.result.pushed
            /\ ~r.result.prCreated
            /\ r.result.prError = Undefined

\* C3: with gh present, the remotes listed, an upstream remote that points to
\* org/repo and an origin remote owned by alice, gh pr create is run with
\* --repo org/repo and --head alice:<branch>, <branch> the current branch.
C3_ForkTarget ==
    \A i \in 1..Len(cmds) :
        LET c == cmds[i] IN
        /\ IsPrCreate(c)
        /\ \E j \in 1..(i - 1) :
             cmds[j].proc = c.proc /\ IsRemoteV(cmds[j]) /\ cmds[j].ok
        /\ remoteCfg.upstream.present
        /\ remoteCfg.upstream.owner = "org"
        /\ remoteCfg.origin.present
        /\ remoteCfg.origin.owner = "alice"
        => /\ HasFlag(c.argv, "--repo")
           /\ FlagValue(c.argv, "--repo") = << "org", "/", "repo" >>
           /\ FlagValue(c.argv, "--head")
                = << "alice", ":" >> \o branchName[c.proc]

\* gh pr create has run in a fork whose remotes are given in different forms
C3_Witness ==
    /\ remoteCfg.upstream.present
    /\ remoteCfg.upstream.form = "https"
    /\ remoteCfg.origin.present
    /\ remoteCfg.origin.form = "ssh.git"
    /\ \E i \in 1..Len(cmds) : IsPrCreate(cmds[i])
    /\ \E j \in 1..Len(cmds) : IsRemoteV(cmds[j]) /\ cmds[j].ok

\* C20: gh pr create carries --repo exactly when a remote named upstream is
\* configured, and then its head is '<origin owner>:<branch>'; without an
\* upstream remote it carries no --repo and its head is the branch name.
C20_RepoIffUpstream ==
    \A i \in 1..Len(cmds) :
        LET c == cmds[i] IN
        IsPrCreate(c) =>
            /\ HasFlag(c.argv, "--repo") <=> remoteCfg.upstream.present
            /\ IF remoteCfg.upstream.present
                 THEN /\ Len(FlagValue(c.argv, "--head")) > Len(branchName[c.proc])
                      /\ SubSeq(FlagValue(c.argv, "--head"),
                                Len(FlagValue(c.argv, "--head"))
                                    - Len(branchName[c.proc]),
                                Len(FlagValue(c.argv, "--head")))
                            = << ":" >> \o branchName[c.proc]
                 ELSE FlagValue(c.argv, "--head") = branchName[c.proc]

\* the commands of invocation p, in the order they were run
CmdsOf(p) == SelectSeq(cmds, LAMBDA c : c.proc = p)

IsCommit(c) == Len(c.argv) >= 2 /\ c.argv[2] = T("commit")
IsAdd(c) == c.argv = GitAdd

\* the first eight characters of the hash git rev-parse HEAD prints
ShortHash == << "3", "f", "a", "9", "0", "c", "1", "d" >>

\* gh pr create of invocation p has failed
PrCreateFailed(p) ==
    \E i \in 1..Len(cmds) :
        cmds[i].proc = p /\ IsPrCreate(cmds[i]) /\ ~cmds[i].ok

\* C11: when gh pr create fails after a push that succeeded, the invocation
\* answers once, 200 with success:true and a result with pushed = true,
\* committed true exactly when git commit ran (commitHash then the short hash
\* of HEAD, else null), prCreated = false and prError the stderr of gh (its
\* message when stderr is empty); gh pr create is its last command, so
\* nothing is run that could undo the commit or the push.
C11_PrFailureKeepsPush ==
    \A p \in Procs :
        PrCreateFailed(p) =>
            LET mine == CmdsOf(p)
                rs == ResponsesOf(p)
                committed == \E i \in 1..Len(mine) : IsCommit(mine[i]) /\ mine[i].ok
            IN  /\ IsPrCreate(mine[Len(mine)])
                /\ \E i \in 1..Len(mine) :
                     /\ IsPush(mine[i]) \/ IsPushSetUpstream(mine[i])
                     /\ mine[i].ok
                /\ Len(rs) = 1
                /\ rs[1].success
                /\ rs[1].status = 200
                /\ rs[1].result.pushed
                /\ rs[1].result.committed = committed
                /\ rs[1].result.commitHash = IF committed THEN ShortHash ELSE Null
                /\ ~rs[1].result.prCreated
                /\ rs[1].result.prError \in { T("fatal: rejected"), T("Command failed") }

\* a commit was made, the second push succeeded and gh pr create failed
\* without output on stderr
C11_Witness ==
    /\ PrCreateFailed(1)
    /\ pc[1] = "done"
    /\ hasChanges[1]
    /\ \E i \in 1..Len(cmds) : IsPushSetUpstream(cmds[i]) /\ cmds[i].ok
    /\ prError[1] = T("Command failed")

\* git add or git commit of invocation p has failed
StageOrCommitFailed(p) ==
    \E i \in 1..Len(cmds) :
        cmds[i].proc = p /\ ( IsAdd(cmds[i]) \/ IsCommit(cmds[i]) ) /\ ~cmds[i].ok

\* C12: when git add or git commit fails, that command is the last one of the
\* invocation (no push, no gh command), and the invocation answers once, 500
\* with success:false and without a result.
C12_CommitFailureFatal ==
    \A p \in Procs :
        StageOrCommitFailed(p) =>
            LET mine == CmdsOf(p)
                rs == ResponsesOf(p)
            IN  /\ IsAdd(mine[Len(mine)]) \/ IsCommit(mine[Len(mine)])
                /\ \A i \in 1..Len(mine) :
                     /\ ~IsPush(mine[i]) /\ ~IsPushSetUpstream(mine[i])
                     /\ ~IsProbe(mine[i]) /\ ~IsPrCreate(mine[i])
                /\ pc[p] = "done"
                /\ Len(rs) = 1
                /\ ~rs[1].success
                /\ rs[1].status = 500
                /\ rs[1].result = NoResult

\* git add succeeded and git commit failed
C12_Witness ==
    /\ StageOrCommitFailed(1)
    /\ \E i \in 1..Len(cmds) : IsAdd(cmds[i]) /\ cmds[i].ok
    /\ \E i \in 1..Len(cmds) : IsCommit(cmds[i]) /\ ~cmds[i].ok

\* the indices of the plain pushes and of the upstream-setting pushes of p
PlainPushes(p) == { i \in 1..Len(cmds) : cmds[i].proc = p /\ IsPush(cmds[i]) }
UpstreamPushes(p) ==
    { i \in 1..Len(cmds) : cmds[i].proc = p /\ IsPushSetUpstream(cmds[i]) }

\* the response of p reports the push as failed
PushReportedFailed(p) ==
    \E i \in 1..Len(responses) :
        /\ responses[i].proc = p
        /\ ~responses[i].success
        /\ Len(responses[i].error) >= 1
        /\ responses[i].error[1] = "Failed to push branch: "

\* C13: an invocation runs at most one plain push and at most one
\* upstream-setting push; the second only after the plain push has failed,
\* and always once it has failed (so one push when the plain push succeeds,
\* two when it fails); the push is reported failed exactly when both failed.
C13_RetryOnceIffPlainFailed ==
    \A p \in Procs :
        /\ Cardinality(PlainPushes(p)) <= 1
        /\ Cardinality(UpstreamPushes(p)) <= 1
        /\ \A i \in UpstreamPushes(p) :
             \E j \in PlainPushes(p) : j < i /\ ~cmds[j].ok
        /\ \A j \in PlainPushes(p) :
             IF cmds[j].ok
                 THEN UpstreamPushes(p) = { }
                 ELSE pc[p] # "push2" => Cardinality(UpstreamPushes(p)) = 1
        /\ pc[p] = "done" =>
             ( PushReportedFailed(p) <=>
                 /\ \E j \in PlainPushes(p) : ~cmds[j].ok
                 /\ \E i \in UpstreamPushes(p) : ~cmds[i].ok )

\* the plain push failed, the upstream-setting push succeeded and the
\* request has been answered with a result
C13_Witness ==
    /\ pc[1] = "done"
    /\ \E j \in PlainPushes(1) : ~cmds[j].ok
    /\ \E i \in UpstreamPushes(1) : cmds[i].ok
    /\ ResponsesOf(1)[1].success

\* invocations p and q publish the same worktree
SamePath(p, q) ==
    /\ pc[p] # "idle" /\ pc[q] # "idle"
    /\ body[p].worktreePath = body[q].worktreePath

\* C14: of two invocations that publish the same worktree, one runs all of
\* its commands before the other runs its first: no command of one lies
\* between two commands of the other.
C14_SamePathSerialized ==
    \A p, q \in Procs :
        p # q /\ SamePath(p, q) =>
            \A i, j, k \in 1..Len(cmds) :
                i < j /\ j < k /\ cmds[i].proc = p /\ cmds[k].proc = p
                    => cmds[j].proc = p

\* invocation p has run the command with success
Ran(p, argv) ==
    \E i \in 1..Len(cmds) :
        cmds[i].proc = p /\ cmds[i].argv = argv /\ cmds[i].ok

\* invocation p has pushed, or tried to
PushTried(p) == \E i \in 1..Len(cmds) : cmds[i].proc = p /\ IsPush(cmds[i])

\* s is the start of what git rev-parse HEAD may print
HashPrefix(s) == \E out \in HashOutputs : SubSeq(out, 1, Len(s)) = s

\* C24: in every success result, committed is true exactly when git status
\* showed changes, and commitHash is a string exactly when committed is
\* true: then git add, git commit and git rev-parse HEAD have run and
\* commitHash is the start of the new HEAD hash, at most 8 characters long;
\* without changes no git add and no git commit was run, commitHash is null
\* and the push was tried all the same.
C24_CommittedIffChanges ==
    \A p \in Procs :
        \A i \in 1..Len(responses) :
            responses[i].proc = p /\ responses[i].success =>
                LET r == responses[i].result IN
                /\ r.committed = hasChanges[p]
                /\ r.commitHash # Null <=> r.committed
                /\ r.committed =>
                     /\ Ran(p, GitAdd)
                     /\ \E k \in 1..Len(cmds) :
                          cmds[k].proc = p /\ IsCommit(cmds[k]) /\ cmds[k].ok
                     /\ Ran(p, GitRevParseHead)
                     /\ Len(r.commitHash) <= 8
                     /\ HashPrefix(r.commitHash)
                /\ ~r.committed =>
                     /\ \A k \in 1..Len(cmds) :
                          cmds[k].proc = p =>
                              ~IsAdd(cmds[k]) /\ ~IsCommit(cmds[k])
                     /\ r.commitHash = Null
                     /\ PushTried(p)

\* a publication without changes to commit has been answered with success
C24_Witness ==
    /\ pc[1] = "done"
    /\ Len(responses) = 1
    /\ responses[1].success
    /\ ~responses[1].result.committed
    /\ ~hasChanges[1]
    /\ PushTried(1)

\* a command that is in no try block of its own has failed for invocation p
FailedOutsideTry(p) ==
    \E i \in 1..Len(cmds) :
        /\ cmds[i].proc = p
        /\ ~cmds[i].ok
        /\ \/ cmds[i].argv \in { GitRevParseBranch, GitStatus, GitAdd,
                                 GitRevParseHead }
           \/ IsCommit(cmds[i])

\* gh was asked for and not found by invocation p
ProbeFailed(p) ==
    \E i \in 1..Len(cmds) :
        cmds[i].proc = p /\ IsProbe(cmds[i]) /\ ~cmds[i].ok

\* invocation p has answered exactly when it is over, never twice, and with
\* the envelope of the path it took
OneResponsePerPath(p) ==
    LET rs == ResponsesOf(p) IN
    /\ Len(rs) <= 1
    /\ Len(rs) = 1 <=> pc[p] = "done"
    /\ Len(rs) = 1 =>
         IF ~Truthy(body[p].worktreePath)
             THEN rs[1].status = 400 /\ ~rs[1].success /\ CmdsOf(p) = << >>
         ELSE IF FailedOutsideTry(p) \/ BothPushesFailed(p)
             THEN rs[1].status = 500 /\ ~rs[1].success
         ELSE /\ rs[1].status = 200
              /\ rs[1].success
              /\ PrCreateFailed(p) \/ ProbeFailed(p)
                     <=> rs[1].result.prError # Undefined

\* C25: a request is answered exactly once, never twice and, its commands
\* returning, never not at all: 400 for a missing worktreePath, 500 when a
\* command outside the push and gh steps fails or both pushes fail, 200 with
\* prError when gh fails, 200 without when all went well; nothing runs
\* after the response.
C25_ExactlyOneResponse ==
    /\ [](\A p \in Procs : OneResponsePerPath(p))
    /\ \A p \in Procs :
         pc[p] # "idle" ~> ( pc[p] = "done" /\ Len(ResponsesOf(p)) = 1 )

\* git commit succeeded, git rev-parse HEAD failed, and the request has been
\* answered 500
C25_Witness ==
    /\ pc[1] = "done"
    /\ \E i \in 1..Len(cmds) :
         cmds[i].proc = 1 /\ cmds[i].argv = GitRevParseHead /\ ~cmds[i].ok
    /\ Len(responses) = 1
    /\ responses[1].status = 500

\* C26: in every success result pushed is true; prCreated = true implies
\* that prUrl is a non-empty string and that there is no prError; a prError
\* implies prCreated = false and prUrl null.
C26_CreatedExcludesError ==
    \A i \in 1..Len(responses) :
        responses[i].success =>
            LET r == responses[i].result IN
            /\ r.pushed
            /\ r.prCreated =>
                 /\ r.prUrl \notin { Null, Undefined, << >> }
                 /\ r.prError = Undefined
            /\ r.prError # Undefined =>
                 /\ ~r.prCreated
                 /\ r.prUrl = Null

\* gh pr create printed the address of the request it made
C26_Witness ==
    /\ pc[1] = "done"
    /\ Len(responses) = 1
    /\ responses[1].success
    /\ responses[1].result.prCreated
    /\ Len(responses[1].result.prUrl) > 1

----------------------------------------------------------------------------
\* Board projection (useBoardColumnFeatures)

\* the longest features list of the projection runs
MaxFeatures == 2

\* the longest features list of the backlog ordering runs
MaxBacklog == 4

\* the keys of the map of lines 21-27
ColumnIds ==
    { "backlog", "in_progress", "waiting_approval", "verified", "completed" }

\* names every object inherits from Object.prototype: map[name] is defined
\* (and truthy) for them although map has no such column
ObjectPrototypeKeys == { "constructor", "toString", "valueOf", "__proto__" }

\* stored status values: the five columns, an unknown name, an inherited name
Statuses == ColumnIds \cup { "archived", "constructor" }

\* absent priority, and the priorities 1 (high) to 3 (low)
NoPriority == << >>
Priorities == { NoPriority, << 1 >>, << 2 >>, << 3 >> }

\* the sort key of a feature without priority (line 78)
NoPriorityKey == 999

WorktreeA == T("/repo/.worktrees/a")
WorktreeB == T("/repo/.worktrees/b")

\* description and category of the i-th feature: odd ones are about "Log" and
\* have no category, even ones are about "x" in category "API"
DescriptionOf(i) == IF i % 2 = 1 THEN << "L", "o", "g" >> ELSE << "x" >>
CategoryOf(i) == IF i % 2 = 1 THEN Undefined ELSE << "A", "P", "I" >>

\* the title of the i-th feature: odd ones are titled "API", even ones "Log"
TitleOf(i) == IF i % 2 = 1 THEN << "A", "P", "I" >> ELSE << "L", "o", "g" >>

SearchQueries == { << >>, << " ", "L", "O", "G" >>, << "a", "p", "i" >> }

\* String.prototype.toLowerCase on the letters in use
LowerOf(c) ==
    CASE c = "A" -> "a" [] c = "G" -> "g" [] c = "I" -> "i" [] c = "L" -> "l"
      [] c = "O" -> "o" [] c = "P" -> "p" [] OTHER -> c
ToLowerCase(s) == [ i \in 1..Len(s) |-> LowerOf(s[i]) ]

\* String.prototype.includes
Includes(s, q) ==
    \E i \in 0..(Len(s) - Len(q)) : SubSeq(s, i + 1, i + Len(q)) = q

\* lines 30-37: the predicate of the text filter, q the normalized query
MatchesQuery(f, q) ==
    \/ Includes(ToLowerCase(f.description), q)
    \/ f.category # Undefined /\ Includes(ToLowerCase(f.category), q)

\* ScopeKeep with main showing the features of every worktree
ScopeKeepAllOnMain(f, cw) ==
    \/ ~Truthy(f.worktreePath)
    \/ cw = Null
    \/ f.worktreePath = cw

\* lines 43-57: the predicate of the worktree filter
ScopeKeep(f, cw) ==
    IF ~Truthy(f.worktreePath) THEN TRUE
    ELSE IF cw = Null THEN FALSE
    ELSE f.worktreePath = cw

\* TextFilter matching the query as it was typed, blanks included
TextFilterUntrimmed(fs, query) ==
    LET normalizedQuery == ToLowerCase(query)
    IN  IF Truthy(normalizedQuery)
            THEN SelectSeq(fs, LAMBDA f : MatchesQuery(f, normalizedQuery))
            ELSE fs

\* lines 30-37: the text filter
TextFilter(fs, query) ==
    LET normalizedQuery == Trim(ToLowerCase(query))
    IN  IF Truthy(normalizedQuery)
            THEN SelectSeq(fs, LAMBDA f : MatchesQuery(f, normalizedQuery))
            ELSE fs

\* lines 29-57: filteredFeatures, the text filter first and the worktree
\* filter on what it keeps
FilteredFeatures(fs, query, cw) ==
    SelectSeq(TextFilter(fs, query), LAMBDA f : ScopeKeep(f, cw))

EmptyMap == [ c \in ColumnIds |-> << >> ]

\* lines 59-74: the forEach from position n on; the result is the map, or
\* Threw when map[status] is an inherited property, which has no push
Threw == [ c \in { "threw" } |-> << >> ]

RECURSIVE Distribute(_, _, _, _)
Distribute(fs, n, running, map) ==
    IF n > Len(fs) THEN map
    ELSE LET f == fs[n] IN
         IF f.id \in running
             THEN Distribute(fs, n + 1, running,
                      [ map EXCEPT !["in_progress"] = Append(@, f) ])
         ELSE IF f.status \in ColumnIds
             THEN Distribute(fs, n + 1, running,
                      [ map EXCEPT ![f.status] = Append(@, f) ])
         ELSE IF f.status \in ObjectPrototypeKeys
             THEN Threw
         ELSE Distribute(fs, n + 1, running,
                  [ map EXCEPT !["backlog"] = Append(@, f) ])

\* a.priority ?? 999
PriorityKey(f) == IF f.priority = NoPriority THEN NoPriorityKey ELSE f.priority[1]

\* ComparePriority with the operands the wrong way round
ComparePriorityReversed(a, b) == PriorityKey(b) - PriorityKey(a)

\* lines 77-81: the comparator of the backlog sort
ComparePriority(a, b) == PriorityKey(a) - PriorityKey(b)

\* Array.prototype.sort, which is stable: f goes behind every element that
\* does not compare greater than it
RECURSIVE InsertSorted(_, _)
InsertSorted(sorted, f) ==
    IF sorted = << >> THEN << f >>
    ELSE IF ComparePriority(Head(sorted), f) <= 0
        THEN << Head(sorted) >> \o InsertSorted(Tail(sorted), f)
        ELSE << f >> \o sorted

RECURSIVE SortBacklog(_, _)
SortBacklog(fs, n) ==
    IF n = 0 THEN << >> ELSE InsertSorted(SortBacklog(fs, n - 1), fs[n])

\* lines 20-84: the callback of useMemo
ColumnFeaturesMap(fs, running, query, cw) ==
    LET filteredFeatures == FilteredFeatures(fs, query, cw)
        map == Distribute(filteredFeatures, 1, running, EmptyMap)
    IN  IF map = Threw THEN Threw
        ELSE [ map EXCEPT !["backlog"] = SortBacklog(@, Len(@)) ]

\* a feature of the registry; its id is its position in the registry
Feature(i, status, priority, wt) ==
    [ id |-> i, status |-> status, priority |-> priority, worktreePath |-> wt,
      title |-> TitleOf(i),
      description |-> DescriptionOf(i), category |-> CategoryOf(i) ]

\* feature lists of length n whose fields are drawn from the given sets
FeatureLists(n, statuses, priorities, paths) ==
    { [ i \in 1..n |-> Feature(i, c[i][1], c[i][2], c[i][3]) ] :
        c \in [ 1..n -> statuses \X priorities \X paths ] }

BoardIdle ==
    /\ features = << >>
    /\ runningAutoTasks = { }
    /\ searchQuery = << >>
    /\ currentWorktree = Null
    /\ columnFeaturesMap = EmptyMap
    /\ projection = "pending"

\* the props of a render of the board: any status, with or without worktree
BoardInit ==
    /\ \E n \in 0..MaxFeatures :
         /\ features \in FeatureLists(n, Statuses, { NoPriority },
                                      { Undefined, WorktreeA })
         /\ runningAutoTasks \in SUBSET (1..MaxFeatures)
    /\ searchQuery \in SearchQueries
    /\ currentWorktree \in { Null, WorktreeA, WorktreeB }
    /\ columnFeaturesMap = EmptyMap
    /\ projection = "pending"

\* the props of a render of a backlog: any priority, statuses of the backlog
BacklogInit ==
    /\ \E n \in 0..MaxBacklog :
         features \in FeatureLists(n, { "backlog", "archived" }, Priorities,
                                   { Undefined })
    /\ runningAutoTasks \in { { }, { 2 } }
    /\ searchQuery = << >>
    /\ currentWorktree = Null
    /\ columnFeaturesMap = EmptyMap
    /\ projection = "pending"

\* the render: useMemo runs its callback
Project ==
    /\ projection = "pending"
    /\ LET map == ColumnFeaturesMap(features, runningAutoTasks, searchQuery,
                                    currentWorktree)
       IN  IF map = Threw
             THEN projection' = "threw" /\ UNCHANGED columnFeaturesMap
             ELSE projection' = "done" /\ columnFeaturesMap' = map
    /\ UNCHANGED << features, runningAutoTasks, searchQuery, currentWorktree >>
    /\ UNCHANGED notBoard

\* a prop changes: the memoized value is dropped and computed again
ChangeWorktree ==
    /\ projection # "pending"
    /\ \E cw \in { Null, WorktreeA, WorktreeB } :
         cw # currentWorktree /\ currentWorktree' = cw
    /\ projection' = "pending"
    /\ columnFeaturesMap' = EmptyMap
    /\ UNCHANGED << features, runningAutoTasks, searchQuery >>
    /\ UNCHANGED notBoard

----------------------------------------------------------------------------
\* Properties of the board projection

\* f is listed in column c of the memoized map
InColumn(f, c) ==
    \E k \in 1..Len(columnFeaturesMap[c]) : columnFeaturesMap[c][k] = f

\* f passes the text filter: the query is blank, or occurs in its description
\* or its category, letter case ignored
PassesTextFilter(f) ==
    LET q == Trim(ToLowerCase(searchQuery)) IN
    q = << >> \/ MatchesQuery(f, q)

\* f passes the scope filter: it has no worktree, or the selected one
PassesScopeFilter(f) ==
    ~Truthy(f.worktreePath) \/ f.worktreePath = currentWorktree

\* the column of a displayed feature: in_progress while it runs, else the
\* column of its status, backlog for a status that names no column
ExpectedColumn(f) ==
    IF f.id \in runningAutoTasks THEN "in_progress"
    ELSE IF f.status \in ColumnIds THEN f.status
    ELSE "backlog"

\* C4: a feature without worktreePath that passes the text filter is listed
\* in the column of its running/status state, whichever worktree is selected.
C4_UnscopedShownEverywhere ==
    projection # "pending" =>
        \A i \in 1..Len(features) :
            LET f == features[i] IN
            ~Truthy(f.worktreePath) /\ PassesTextFilter(f) =>
                InColumn(f, ExpectedColumn(f))

\* C5: a feature with worktreePath = A is in no column when another worktree
\* or main (null) is selected, running or not.
C5_ScopedHiddenElsewhere ==
    projection # "pending" =>
        \A i \in 1..Len(features) :
            LET f == features[i] IN
            /\ Truthy(f.worktreePath)
            /\ currentWorktree = Null \/ currentWorktree # f.worktreePath
            => \A c \in ColumnIds : ~InColumn(f, c)

\* a running feature of worktree A is hidden while worktree B is selected and
\* another feature is shown
C5_Witness ==
    /\ projection = "done"
    /\ currentWorktree = WorktreeB
    /\ Len(features) = 2
    /\ features[1].worktreePath = WorktreeA
    /\ 1 \in runningAutoTasks
    /\ InColumn(features[2], "verified")

\* C6: a feature that passes both filters and is running is listed in
\* in_progress and in no other column, whatever its stored status.
C6_RunningInProgress ==
    projection # "pending" =>
        \A i \in 1..Len(features) :
            LET f == features[i] IN
            /\ PassesTextFilter(f)
            /\ PassesScopeFilter(f)
            /\ f.id \in runningAutoTasks
            => /\ InColumn(f, "in_progress")
               /\ \A c \in ColumnIds \ { "in_progress" } : ~InColumn(f, c)

\* a goes before b in priority order: absent priority is behind every number
Before(a, b) ==
    /\ a.priority # NoPriority
    /\ b.priority = NoPriority \/ a.priority[1] < b.priority[1]

\* the priorities of a list of features
PrioritiesOf(fs) == [ k \in 1..Len(fs) |-> fs[k].priority ]

\* C7: the backlog column holds the displayed features that belong to it,
\* ascending by priority with absent priority last, features of equal or of
\* absent priority in encounter order; [3,1,undefined,2] gives
\* [1,2,3,undefined].
C7_BacklogSorted ==
    projection = "done" =>
        LET b == columnFeaturesMap["backlog"] IN
        /\ \A i \in 1..Len(features) :
             LET f == features[i] IN
             InColumn(f, "backlog") <=>
                /\ PassesTextFilter(f)
                /\ PassesScopeFilter(f)
                /\ ExpectedColumn(f) = "backlog"
        /\ \A k, l \in 1..Len(b) :
             k < l =>
                /\ b[k] # b[l]
                /\ ~Before(b[l], b[k])
                /\ ~Before(b[k], b[l]) => b[k].id < b[l].id
        /\ ( /\ PrioritiesOf(features) = << << 3 >>, << 1 >>, NoPriority, << 2 >> >>
             /\ runningAutoTasks = { } )
           => PrioritiesOf(b) = << << 1 >>, << 2 >>, << 3 >>, NoPriority >>

\* the backlog [3,1,undefined,2] has been projected
C7_Witness ==
    /\ projection = "done"
    /\ PrioritiesOf(features) = << << 3 >>, << 1 >>, NoPriority, << 2 >> >>
    /\ runningAutoTasks = { }
    /\ Len(columnFeaturesMap["backlog"]) = 4

\* f is listed in some column of the memoized map
Displayed(f) == \E c \in ColumnIds : InColumn(f, c)

\* C18: the projection ends without error, and a feature that is not
\* running, passes both filters and has a status that names none of the five
\* columns ('archived', 'constructor') is listed in backlog and in no other
\* column.
C18_UnknownStatusToBacklog ==
    projection # "pending" =>
        \A i \in 1..Len(features) :
            LET f == features[i] IN
            /\ f.id \notin runningAutoTasks
            /\ PassesTextFilter(f)
            /\ PassesScopeFilter(f)
            /\ f.status \notin ColumnIds
            => /\ projection = "done"
               /\ InColumn(f, "backlog")
               /\ \A c \in ColumnIds \ { "backlog" } : ~InColumn(f, c)

\* q occurs in s, letter case ignored
OccursIn(q, s) ==
    \E i \in 0..(Len(s) - Len(q)) :
        \A k \in 1..Len(q) : LowerOf(s[i + k]) = LowerOf(q[k])

\* q occurs in the description of f or, if f has one, in its category
InDescriptionOrCategory(q, f) ==
    \/ OccursIn(q, f.description)
    \/ f.category # Undefined /\ OccursIn(q, f.category)

\* the text filter keeps f
KeptByText(f) ==
    LET kept == TextFilter(features, searchQuery)
    IN  \E k \in 1..Len(kept) : kept[k] = f

\* C19 as stated: the text filter keeps a feature exactly when searchQuery is
\* empty or occurs, letter case ignored, in its description or its category.
C19_TextFilterAsTyped ==
    projection # "pending" =>
        \A i \in 1..Len(features) :
            KeptByText(features[i]) <=>
                \/ searchQuery = << >>
                \/ InDescriptionOrCategory(searchQuery, features[i])

\* C19, amended: the text filter keeps a feature exactly when searchQuery
\* without its leading and trailing blanks is empty or occurs, letter case
\* ignored, in its description or its category (never for its title alone,
\* and on the description alone when it has no category); the scope filter
\* works on what the text filter kept, so the features displayed are those
\* that both keep.
C19_TextFilterTrimmed ==
    projection # "pending" =>
        \A i \in 1..Len(features) :
            LET f == features[i]
                q == Trim(searchQuery)
                matches == q = << >> \/ InDescriptionOrCategory(q, f)
            IN  /\ KeptByText(f) <=> matches
                /\ projection = "done" =>
                     ( Displayed(f) <=> matches /\ PassesScopeFilter(f) )

\* the query " LOG" has kept the feature described as "Log" and dropped the
\* one titled "Log"
C19_Witness ==
    /\ projection = "done"
    /\ searchQuery = << " ", "L", "O", "G" >>
    /\ Len(features) = 2
    /\ ~Truthy(features[2].worktreePath)
    /\ Displayed(features[1])
    /\ ~Displayed(features[2])

\* the places of the memoized map where f is listed
PlacesOf(f) ==
    { pl \in ColumnIds \X (1..Len(features)) :
        /\ pl[2] <= Len(columnFeaturesMap[pl[1]])
        /\ columnFeaturesMap[pl[1]][pl[2]] = f }

\* C27: after the projection every feature that passes the text filter and
\* the scope filter is listed in one place of one column, a feature that
\* fails a filter is listed nowhere, every column but backlog lists its
\* features in the order of the input, and the input still has its features
\* in their places.
C27_ProjectPartitions ==
    projection # "pending" =>
        /\ \A i \in 1..Len(features) :
             Cardinality(PlacesOf(features[i])) =
                 IF PassesTextFilter(features[i]) /\ PassesScopeFilter(features[i])
                     THEN 1 ELSE 0
        /\ \A c \in ColumnIds \ { "backlog" } :
             \A k, l \in 1..Len(columnFeaturesMap[c]) :
                 k < l => columnFeaturesMap[c][k].id < columnFeaturesMap[c][l].id
        /\ \A i \in 1..Len(features) : features[i].id = i

----------------------------------------------------------------------------
\* POST /list (createListHandler)

\* the most worktrees of the repository
MaxRecords == 3

ProjectPath == T("/repo")

\* an optional field of a JavaScript object: absent, or present with value v
Absent == << >>
Present(v) == << v >>

\* the path of the i-th worktree git lists; the first is the main one
PathOf(i) ==
    IF i = 1 THEN ProjectPath
    ELSE ProjectPath \o << "/.worktrees/", "wt", ToString(i) >>

BranchRefs ==
    { << "refs/heads/", "main" >>, << "refs/heads/", "feature", "/", "x" >> }

\* A worktree as git knows it: on a branch, with a detached HEAD, or the
\* bare repository itself.
RecordsOf(n) ==
    { [ i \in 1..n |->
          [ path |-> PathOf(i), kind |-> c[i][1], ref |-> c[i][2] ] ] :
        c \in [ 1..n -> ({ "branch" } \X BranchRefs)
                        \cup ({ "detached", "bare" } \X { << >> }) ] }

\* the lines git worktree list --porcelain prints for one worktree, the
\* empty line that ends the record included
RecordLines(r) ==
    << << "worktree " >> \o r.path >>
    \o ( CASE r.kind = "bare" -> << << "bare" >> >>
           [] r.kind = "detached" ->
                << << "HEAD ", "3fa90c1d" >>, << "detached" >> >>
           [] r.kind = "branch" ->
                << << "HEAD ", "3fa90c1d" >>, << "branch " >> \o r.ref >> )
    \o << << >> >>

RECURSIVE ListingLines(_, _)
ListingLines(rs, n) ==
    IF n = 0 THEN << >> ELSE ListingLines(rs, n - 1) \o RecordLines(rs[n])

\* stdout.split("\n"): the lines, and the empty string behind the last line
\* feed; with blankAfterLast false the listing ends with its last record's
\* last line instead of an empty line
SplitListing(rs, blankAfterLast) ==
    LET all == ListingLines(rs, Len(rs))
    IN  ( IF blankAfterLast THEN all ELSE SubSeq(all, 1, Len(all) - 1) )
        \o << << >> >>

\* line.startsWith(prefix), the prefix being a token of its own
StartsWith(line, prefix) == line # << >> /\ Head(line) = prefix

\* s.replace(tok, ""): the first occurrence only
RECURSIVE RemoveFirst(_, _)
RemoveFirst(s, tok) ==
    IF s = << >> THEN s
    ELSE IF Head(s) = tok THEN Tail(s)
    ELSE << Head(s) >> \o RemoveFirst(Tail(s), tok)

WorktreeInfo(path, branch, isMain) ==
    [ path |-> path, branch |-> branch, isMain |-> isMain,
      hasChanges |-> Absent, changedFilesCount |-> Absent,
      aheadBehind |-> Absent ]

ParseStart ==
    [ worktrees |-> << >>, path |-> Undefined, branch |-> Undefined,
      isFirst |-> TRUE ]

\* ParseLine with isFirst never cleared
ParseLineAllMain(st, line) ==
    IF StartsWith(line, "worktree ") THEN [ st EXCEPT !.path = Tail(line) ]
    ELSE IF StartsWith(line, "branch ")
        THEN [ st EXCEPT !.branch = RemoveFirst(Tail(line), "refs/heads/") ]
    ELSE IF line = << >>
        THEN IF Truthy(st.path) /\ Truthy(st.branch)
               THEN [ st EXCEPT
                        !.worktrees =
                            Append(@, WorktreeInfo(st.path, st.branch, st.isFirst)),
                        !.path = Undefined, !.branch = Undefined ]
               ELSE [ st EXCEPT !.path = Undefined, !.branch = Undefined ]
    ELSE st

\* lines 49-63: the body of the loop over the lines
ParseLine(st, line) ==
    IF StartsWith(line, "worktree ") THEN [ st EXCEPT !.path = Tail(line) ]
    ELSE IF StartsWith(line, "branch ")
        THEN [ st EXCEPT !.branch = RemoveFirst(Tail(line), "refs/heads/") ]
    ELSE IF line = << >>
        THEN IF Truthy(st.path) /\ Truthy(st.branch)
               THEN [ st EXCEPT
                        !.worktrees =
                            Append(@, WorktreeInfo(st.path, st.branch, st.isFirst)),
                        !.isFirst = FALSE,
                        !.path = Undefined, !.branch = Undefined ]
               ELSE [ st EXCEPT !.path = Undefined, !.branch = Undefined ]
    ELSE st

\* lines 43-64: the loop over the first n lines
RECURSIVE ParseListing(_, _)
ParseListing(lines, n) ==
    IF n = 0 THEN ParseStart
    ELSE ParseLine(ParseListing(lines, n - 1), lines[n])

\* what git status --porcelain prints in a worktree, split at line feeds
ListStatusOutputs ==
    { << << >> >>,
      << << " M ", "a.ts" >>, << "?? ", "b.ts" >>, << >> >> }

\* status.split("\n").filter(Boolean)
ChangedFiles(lines) == SelectSeq(lines, LAMBDA l : Truthy(l))

\* what git rev-list --left-right --count prints: behind, a tab, ahead
RevListOutputs ==
    { << "0", "\t", "0", "\n" >>, << "2", "\t", "1", "\n" >> }

\* Number(s) || 0 for the counts above
NumberOrZero(s) ==
    CASE s = "1" -> 1 [] s = "2" -> 2 [] OTHER -> 0

\* lines 87-88: [behind, ahead] = revList.trim().split("\t").map(Number)
AheadBehind(out) ==
    LET fields == SelectSeq(Trim(out), LAMBDA t : t # "\t")
    IN  [ ahead |-> IF Len(fields) >= 2 THEN NumberOrZero(fields[2]) ELSE 0,
          behind |-> IF Len(fields) >= 1 THEN NumberOrZero(fields[1]) ELSE 0 ]

ListBodies ==
    [ projectPath : { Undefined, ProjectPath }, includeDetails : BOOLEAN ]

GitWorktreeList == Words(<< "git", "worktree", "list", "--porcelain" >>)
GitStatusIn(path) == GitStatus \o << path >>
GitRevList(wt) ==
    Words(<< "git", "rev-list", "--left-right", "--count" >>)
        \o << << "origin/" >> \o wt.branch \o << "...HEAD" >>, wt.path >>

ListIdle ==
    /\ isRepo = FALSE
    /\ records = << >>
    /\ lpc = "idle"
    /\ lbody = [ projectPath |-> Undefined, includeDetails |-> FALSE ]
    /\ worktrees = << >>
    /\ wtIndex = 0

\* the project is a repository with one to MaxRecords worktrees, or no
\* repository at all
ListInit ==
    /\ isRepo \in BOOLEAN
    /\ IF isRepo THEN \E n \in 1..MaxRecords : records \in RecordsOf(n)
                 ELSE records = << >>
    /\ lpc = "idle"
    /\ lbody = [ projectPath |-> Undefined, includeDetails |-> FALSE ]
    /\ worktrees = << >>
    /\ wtIndex = 0

\* line 99
ListRespond(wts) ==
    /\ responses' = Append(responses, Success(1, wts))
    /\ lpc' = "done"

\* lines 24-32
ListRequest ==
    /\ lpc = "idle"
    /\ \E b \in ListBodies :
        /\ lbody' = b
        /\ IF ~Truthy(b.projectPath)
             THEN /\ responses' = Append(responses,
                          Failure(1, 400, T("projectPath required")))
                  /\ lpc' = "done"
             ELSE /\ lpc' = "isGitRepo"
                  /\ UNCHANGED responses
    /\ UNCHANGED << isRepo, records, worktrees, wtIndex, cmds >>
    /\ UNCHANGED notList

\* ListIsGitRepo going on to the listing whatever isGitRepo says
ListIsGitRepoUnchecked ==
    /\ lpc = "isGitRepo"
    /\ lpc' = "list"
    /\ UNCHANGED << isRepo, records, lbody, worktrees, wtIndex, cmds, responses >>
    /\ UNCHANGED notList

\* lines 34-37
ListIsGitRepo ==
    /\ lpc = "isGitRepo"
    /\ IF ~isRepo
         THEN ListRespond(<< >>)
         ELSE lpc' = "list" /\ UNCHANGED responses
    /\ UNCHANGED << isRepo, records, lbody, worktrees, wtIndex, cmds >>
    /\ UNCHANGED notList

\* the loop of line 68 goes on to entry n of wts, or ends and line 99 answers
ListGoOn(wts, n) ==
    IF lbody.includeDetails /\ n <= Len(wts)
        THEN /\ wtIndex' = n
             /\ lpc' = "status"
             /\ UNCHANGED responses
        ELSE /\ wtIndex' = 0
             /\ ListRespond(wts)

\* lines 39-67 and 100-103
ListWorktrees ==
    /\ lpc = "list"
    /\ \/ \E blankAfterLast \in BOOLEAN :
            LET st == LET lines == SplitListing(records, blankAfterLast)
                      IN  ParseListing(lines, Len(lines))
            IN  /\ worktrees' = st.worktrees
                /\ cmds' = Append(cmds, Cmd(1, GitWorktreeList, TRUE))
                /\ ListGoOn(st.worktrees, 1)
       \/ /\ cmds' = Append(cmds, Cmd(1, GitWorktreeList, FALSE))
          /\ \E err \in ExecErrors :
               responses' = Append(responses, Failure(1, 500, ErrorMessage(err)))
          /\ lpc' = "done"
          /\ UNCHANGED << worktrees, wtIndex >>
    /\ UNCHANGED << isRepo, records, lbody >>
    /\ UNCHANGED notList

\* lines 69-79 and 93-95: the change count of entry wtIndex; a failure skips
\* the rest of the entry's details
ListStatus ==
    /\ lpc = "status"
    /\ LET wt == worktrees[wtIndex] IN
       \/ \E out \in ListStatusOutputs :
            LET changedFiles == ChangedFiles(out) IN
            /\ worktrees' =
                 [ worktrees EXCEPT
                     ![wtIndex].hasChanges = Present(Len(changedFiles) > 0),
                     ![wtIndex].changedFilesCount = Present(Len(changedFiles)) ]
            /\ cmds' = Append(cmds, Cmd(1, GitStatusIn(wt.path), TRUE))
            /\ lpc' = "rev-list"
            /\ UNCHANGED << wtIndex, responses >>
       \/ /\ cmds' = Append(cmds, Cmd(1, GitStatusIn(wt.path), FALSE))
          /\ ListGoOn(worktrees, wtIndex + 1)
          /\ UNCHANGED worktrees
    /\ UNCHANGED << isRepo, records, lbody >>
    /\ UNCHANGED notList

\* lines 81-92: ahead/behind of entry wtIndex, zero when the query fails
ListRevList ==
    /\ lpc = "rev-list"
    /\ LET wt == worktrees[wtIndex] IN
       \/ \E out \in RevListOutputs :
            LET wts == [ worktrees EXCEPT
                           ![wtIndex].aheadBehind = Present(AheadBehind(out)) ]
            IN  /\ worktrees' = wts
                /\ cmds' = Append(cmds, Cmd(1, GitRevList(wt), TRUE))
                /\ ListGoOn(wts, wtIndex + 1)
       \/ LET wts == [ worktrees EXCEPT
                         ![wtIndex].aheadBehind =
                             Present([ ahead |-> 0, behind |-> 0 ]) ]
          IN  /\ worktrees' = wts
              /\ cmds' = Append(cmds, Cmd(1, GitRevList(wt), FALSE))
              /\ ListGoOn(wts, wtIndex + 1)
    /\ UNCHANGED << isRepo, records, lbody >>
    /\ UNCHANGED notList

ListNext ==
    \/ ListRequest
    \/ ListIsGitRepo
    \/ ListWorktrees
    \/ ListStatus
    \/ ListRevList

----------------------------------------------------------------------------
\* Properties of /list

\* every record carries a worktree line and a branch line
WellFormed(rs) == \A i \in 1..Len(rs) : rs[i].kind = "branch"

\* the branch name of a record: its ref without refs/heads/
BranchOf(r) == SubSeq(r.ref, 2, Len(r.ref))

\* the listing has been run and parsed
Listed ==
    \E i \in 1..Len(cmds) : cmds[i].argv = GitWorktreeList /\ cmds[i].ok

\* C8: for a listing of N records, each with a worktree line and a branch
\* line, the handler holds N entries in the order of the records, with the
\* record's path and branch, the first with isMain = true and no other; and
\* these are the entries of the response.
C8_OneEntryPerRecord ==
    Listed /\ WellFormed(records) =>
        /\ Len(worktrees) = Len(records)
        /\ \A i \in 1..Len(worktrees) :
             /\ worktrees[i].path = records[i].path
             /\ worktrees[i].branch = BranchOf(records[i])
             /\ worktrees[i].isMain = (i = 1)
        /\ lpc = "done" =>
             /\ Len(responses) = 1
             /\ responses[1].success
             /\ responses[1].result = worktrees

\* three records on branches have been listed and sent
C8_Witness ==
    /\ Listed
    /\ WellFormed(records)
    /\ Len(records) = 3
    /\ lpc = "done"
    /\ Len(responses[1].result) = 3

\* the change-count query, the divergence query of entry wt has failed
StatusFailed(wt) ==
    \E i \in 1..Len(cmds) : cmds[i].argv = GitStatusIn(wt.path) /\ ~cmds[i].ok
RevListFailed(wt) ==
    \E i \in 1..Len(cmds) : cmds[i].argv = GitRevList(wt) /\ ~cmds[i].ok

\* C17: a listing with details is answered with success and one entry per
\* worktree whichever detail queries fail; an entry whose change-count query
\* failed has changedFilesCount 0 and hasChanges false and still has its
\* aheadBehind; an entry whose divergence query failed has aheadBehind
\* {ahead: 0, behind: 0} and still has its change count; every other entry
\* has all three fields.
C17_DetailFailuresDefault ==
    lpc = "done" /\ lbody.includeDetails /\ Listed =>
        /\ Len(responses) = 1
        /\ responses[1].success
        /\ Len(responses[1].result) = Len(worktrees)
        /\ \A i \in 1..Len(responses[1].result) :
             LET wt == responses[1].result[i] IN
             /\ StatusFailed(wt) =>
                  /\ wt.hasChanges = Present(FALSE)
                  /\ wt.changedFilesCount = Present(0)
                  /\ wt.aheadBehind # Absent
             /\ RevListFailed(wt) =>
                  /\ wt.aheadBehind = Present([ ahead |-> 0, behind |-> 0 ])
                  /\ wt.hasChanges # Absent
                  /\ wt.changedFilesCount # Absent
             /\ ~StatusFailed(wt) /\ ~RevListFailed(wt) =>
                  /\ wt.hasChanges # Absent
                  /\ wt.changedFilesCount # Absent
                  /\ wt.aheadBehind # Absent

\* the request named a project directory that is no repository, and has been
\* answered
NoRepoAnswered ==
    /\ lpc = "done"
    /\ lbody.projectPath \notin { Undefined, Null, << >> }
    /\ ~isRepo

\* C23: a request for a projectPath that is no repository is answered once,
\* 200 with success true and an empty worktrees sequence, and no command (no
\* listing, no status, no rev-list) is run for it, with or without
\* includeDetails.
C23_NoRepoEmptyList ==
    NoRepoAnswered =>
        /\ Len(responses) = 1
        /\ responses[1].success
        /\ responses[1].status = 200
        /\ responses[1].result = << >>
        /\ cmds = << >>

\* a request with includeDetails for a directory that is no repository has
\* been answered
C23_Witness ==
    /\ NoRepoAnswered
    /\ lbody.includeDetails
    /\ Len(responses) = 1

----------------------------------------------------------------------------
\* POST /create (createCreateHandler)

\* the longest branch name of a request, in characters
MaxNameLen == 2

\* the characters of branch names: one token is one character here
LowerLetters == { "a" }
UpperLetters == { "Z" }
Digits == { "9" }
NameChars == LowerLetters \cup UpperLetters \cup Digits
                 \cup { "_", "-", "/", ".", " ", "$" }

\* the characters of branch names in runs of two requests
FewNameChars == { "a", "/", "+", "=" }

\* the names of one to n characters
NamesOf(chars, n) == UNION { [ 1..k -> chars ] : k \in 1..n }

\* the class [a-zA-Z0-9_-] of line 146
SafeChars == LowerLetters \cup UpperLetters \cup Digits \cup { "_", "-" }

\* line 146: branchName.replace(/[^a-zA-Z0-9_-]/g, "-")
Sanitize(name) ==
    [ i \in 1..Len(name) |-> IF name[i] \in SafeChars THEN name[i] ELSE "-" ]

\* lines 147-148: path.join(projectPath, ".worktrees", sanitizedName)
WorktreesDirPath == ProjectPath \o << "/.worktrees" >>
WorktreePathOf(name) == WorktreesDirPath \o << "/" >> \o name

\* lines 190-191
MainAutomaker == ProjectPath \o << "/.automaker" >>
WorktreeAutomaker(name) == WorktreePathOf(name) \o << "/.automaker" >>

\* req.body of /create: with every field, or with one of the required two
\* missing
CreateBodies(names) ==
    [ projectPath : { ProjectPath }, branchName : names,
      baseBranch : { Undefined, T("develop") } ]
    \cup { [ projectPath |-> Undefined, branchName |-> << "a" >>,
             baseBranch |-> Undefined ],
           [ projectPath |-> ProjectPath, branchName |-> Undefined,
             baseBranch |-> Undefined ] }

\* req.body of the requests of a run of two: complete, base left out
FewCreateBodies ==
    [ projectPath : { ProjectPath },
      branchName : NamesOf(FewNameChars, MaxNameLen),
      baseBranch : { Undefined } ]

\* what $$ expands to: the process id of the shell
ShellPid == "<pid>"

\* the characters of the names of shell variables
VariableStart == LowerLetters \cup UpperLetters \cup { "_" }
VariableChars == VariableStart \cup Digits

ShellStart ==
    [ words |-> << >>, cur |-> << >>, open |-> FALSE, quoted |-> FALSE,
      skip |-> "no" ]

\* child_process.exec hands the command line to /bin/sh, which cuts it into
\* the words of argv: at blanks outside double quotes, with the quotes
\* removed, and with $name, $digit and $$ expanded. The server's environment
\* sets none of the variables a branch name can spell, so they expand to
\* nothing.
RECURSIVE ShellScan(_, _, _)
ShellScan(s, i, st) ==
    IF i > Len(s)
        THEN IF st.open THEN Append(st.words, st.cur) ELSE st.words
    ELSE IF st.skip = "name" /\ s[i] \in VariableChars
        THEN ShellScan(s, i + 1, st)
    ELSE IF st.skip = "one"
        THEN ShellScan(s, i + 1, [ st EXCEPT !.skip = "no" ])
    ELSE
        LET tok == s[i]
            next == IF i < Len(s) THEN s[i + 1] ELSE ""
            t == [ st EXCEPT !.skip = "no" ]
        IN  IF tok = "\""
                THEN ShellScan(s, i + 1,
                         [ t EXCEPT !.quoted = ~@, !.open = TRUE ])
            ELSE IF tok = " " /\ ~t.quoted
                THEN ShellScan(s, i + 1,
                         IF t.open
                             THEN [ t EXCEPT !.words = Append(@, t.cur),
                                             !.cur = << >>, !.open = FALSE ]
                             ELSE t)
            ELSE IF tok = "$" /\ next \in VariableStart
                THEN ShellScan(s, i + 1, [ t EXCEPT !.skip = "name" ])
            ELSE IF tok = "$" /\ next \in Digits
                THEN ShellScan(s, i + 1, [ t EXCEPT !.skip = "one" ])
            ELSE IF tok = "$" /\ next = "$"
                THEN ShellScan(s, i + 1,
                         [ t EXCEPT !.cur = Append(@, ShellPid),
                                    !.open = TRUE, !.skip = "one" ])
            ELSE ShellScan(s, i + 1,
                     [ t EXCEPT !.cur = Append(@, tok), !.open = TRUE ])

ShellWords(s) == ShellScan(s, 1, ShellStart)

\* line 167: `git rev-parse --verify ${branchName}`
VerifyCmd(b) ==
    << "git", " ", "rev-parse", " ", "--verify", " " >> \o b.branchName

\* lines 176-185: createCmd
CreateCmd(b, name, exists) ==
    IF exists
        THEN << "git", " ", "worktree", " ", "add", " ", "\"" >>
                 \o WorktreePathOf(name) \o << "\"", " " >> \o b.branchName
        ELSE << "git", " ", "worktree", " ", "add", " ", "-b", " " >>
                 \o b.branchName \o << " ", "\"" >> \o WorktreePathOf(name)
                 \o << "\"", " " >> \o Or(b.baseBranch, T("HEAD"))

\* line 199: fs.symlink(mainAutomaker, worktreeAutomaker, symlinkType)
FsSymlink(name) ==
    Words(<< "fs.symlink" >>) \o << MainAutomaker, WorktreeAutomaker(name) >>

\* lines 206-213
CreateResult(p) ==
    [ path |-> WorktreePathOf(sanitizedName[p]),
      branch |-> cbody[p].branchName,
      isNew |-> ~branchExists[p] ]

\* DirExists finding no directory ever
DirNeverExists(name) == FALSE

\* line 155: fs.access(worktreePath) resolves
DirExists(name) == name \in dirs

\* git rev-parse --verify resolves its one argument to a branch
VerifyResolves(argv) == Len(argv) = 4 /\ argv[4] \in branches

\* a name git accepts for a branch: no empty path component, none that
\* starts with a dot, no dot at the end, no dash at the start
RefNameValid(w) ==
    /\ Len(w) > 0
    /\ w[1] \notin { "/", ".", "-" }
    /\ w[Len(w)] \notin { "/", "." }
    /\ \A i \in 1..(Len(w) - 1) :
         << w[i], w[i + 1] >> \notin { << "/", "/" >>, << "/", "." >>,
                                       << ".", "." >> }

\* what git worktree add reads in its argv: add -b <branch> <path> <base>,
\* or add <path> <branch>; a record without shape for any other argv
AddArgs(argv) ==
    IF Len(argv) = 7 /\ argv[4] = T("-b")
        THEN [ shape |-> TRUE, new |-> TRUE, branch |-> argv[5],
               path |-> argv[6] ]
    ELSE IF Len(argv) = 5 /\ argv[4] # T("-b")
        THEN [ shape |-> TRUE, new |-> FALSE, branch |-> argv[5],
               path |-> argv[4] ]
    ELSE [ shape |-> FALSE, new |-> FALSE, branch |-> Undefined,
           path |-> Undefined ]

\* the directory under .worktrees a path names
DirOf(path) == SubSeq(path, Len(WorktreesDirPath) + 2, Len(path))

\* git worktree add can succeed: the directory is free, and the branch is
\* new (-b) and well named, or exists and is checked out in no worktree
CanAdd(args) ==
    /\ args.shape
    /\ DirOf(args.path) \notin dirs
    /\ IF args.new
         THEN args.branch \notin branches /\ RefNameValid(args.branch)
         ELSE /\ args.branch \in branches
              /\ \A d \in DOMAIN checkedOut : checkedOut[d] # args.branch

CreateLocalsIdle ==
    /\ cpc = [ p \in Procs |-> "idle" ]
    /\ cbody = [ p \in Procs |-> [ projectPath |-> Undefined ] ]
    /\ sanitizedName = [ p \in Procs |-> Undefined ]
    /\ branchExists = [ p \in Procs |-> FALSE ]

CreateIdle ==
    /\ CreateLocalsIdle
    /\ worktreesDir = FALSE
    /\ dirs = { }
    /\ branches = { }
    /\ checkedOut = << >>
    /\ automakerDir = FALSE
    /\ links = { }

\* a project without worktrees of its own yet: a repository or not, with or
\* without a branch named a, with or without a .automaker directory
CreateInit(repo) ==
    /\ CreateLocalsIdle
    /\ isRepo \in repo
    /\ worktreesDir = FALSE
    /\ dirs = { }
    /\ branches \in { { }, { << "a" >> } }
    /\ checkedOut = << >>
    /\ automakerDir \in BOOLEAN
    /\ links = { }

createEnv == << isRepo, worktreesDir, dirs, branches, checkedOut,
                automakerDir, links >>

CreateRespond(p, r) ==
    /\ responses' = Append(responses, r)
    /\ cpc' = [ cpc EXCEPT ![p] = "done" ]

\* lines 214-217
CreateCatch(p) ==
    \E err \in { e \in ExecErrors : e.stderr = << >> } :
        CreateRespond(p, Failure(p, 500, ErrorMessage(err)))

\* lines 123-135
CreateRequest(p, bodies) ==
    /\ cpc[p] = "idle"
    /\ \E b \in bodies :
        /\ cbody' = [ cbody EXCEPT ![p] = b ]
        /\ IF ~Truthy(b.projectPath) \/ ~Truthy(b.branchName)
             THEN CreateRespond(p, Failure(p, 400,
                      T("projectPath and branchName required")))
             ELSE /\ cpc' = [ cpc EXCEPT ![p] = "isGitRepo" ]
                  /\ UNCHANGED responses
    /\ UNCHANGED << sanitizedName, branchExists, cmds >>
    /\ UNCHANGED createEnv
    /\ UNCHANGED notCreate

\* lines 137-148
CreateIsGitRepo(p) ==
    /\ cpc[p] = "isGitRepo"
    /\ IF ~isRepo
         THEN /\ CreateRespond(p, Failure(p, 400, T("Not a git repository")))
              /\ UNCHANGED sanitizedName
         ELSE /\ sanitizedName' =
                    [ sanitizedName EXCEPT ![p] = Sanitize(cbody[p].branchName) ]
              /\ cpc' = [ cpc EXCEPT ![p] = "mkdir" ]
              /\ UNCHANGED responses
    /\ UNCHANGED << cbody, branchExists, cmds >>
    /\ UNCHANGED createEnv
    /\ UNCHANGED notCreate

\* line 151: fs.mkdir(worktreesDir, { recursive: true }); it may fail only
\* where the directory is still to be made
CreateMkdir(p) ==
    /\ cpc[p] = "mkdir"
    /\ \/ /\ worktreesDir' = TRUE
          /\ cpc' = [ cpc EXCEPT ![p] = "access" ]
          /\ UNCHANGED responses
       \/ /\ ~worktreesDir
          /\ CreateCatch(p)
          /\ UNCHANGED worktreesDir
    /\ UNCHANGED << cbody, sanitizedName, branchExists, cmds >>
    /\ UNCHANGED << isRepo, dirs, branches, checkedOut, automakerDir, links >>
    /\ UNCHANGED notCreate

\* lines 153-163
CreateAccess(p) ==
    /\ cpc[p] = "access"
    /\ IF DirExists(sanitizedName[p])
         THEN CreateRespond(p, Failure(p, 400,
                  << "Worktree for branch '" >> \o cbody[p].branchName
                      \o << "' already exists" >>))
         ELSE /\ cpc' = [ cpc EXCEPT ![p] = "verify" ]
              /\ UNCHANGED responses
    /\ UNCHANGED << cbody, sanitizedName, branchExists, cmds >>
    /\ UNCHANGED createEnv
    /\ UNCHANGED notCreate

\* lines 165-174
CreateVerify(p) ==
    /\ cpc[p] = "verify"
    /\ LET argv == ShellWords(VerifyCmd(cbody[p]))
           exists == VerifyResolves(argv)
       IN  /\ branchExists' = [ branchExists EXCEPT ![p] = exists ]
           /\ cmds' = Append(cmds, Cmd(p, argv, exists))
    /\ cpc' = [ cpc EXCEPT ![p] = "add" ]
    /\ UNCHANGED << cbody, sanitizedName, responses >>
    /\ UNCHANGED createEnv
    /\ UNCHANGED notCreate

\* lines 176-187: git worktree add, run on the argv the shell makes of
\* createCmd, makes the directory, binds it to the branch and, with -b, makes
\* the branch; it can fail for reasons of its own
CreateAdd(p) ==
    LET createCmd == CreateCmd(cbody[p], sanitizedName[p], branchExists[p])
        argv == ShellWords(createCmd)
        args == AddArgs(argv)
    IN  /\ cpc[p] = "add"
        /\ \/ /\ CanAdd(args)
              /\ cmds' = Append(cmds, Cmd(p, argv, TRUE))
              /\ dirs' = dirs \cup { DirOf(args.path) }
              /\ branches' = branches \cup { args.branch }
              /\ checkedOut' = checkedOut @@ (DirOf(args.path) :> args.branch)
              /\ cpc' = [ cpc EXCEPT ![p] = "automaker" ]
              /\ UNCHANGED responses
           \/ /\ cmds' = Append(cmds, Cmd(p, argv, FALSE))
              /\ CreateCatch(p)
              /\ UNCHANGED << dirs, branches, checkedOut >>
        /\ UNCHANGED << cbody, sanitizedName, branchExists >>
        /\ UNCHANGED << isRepo, worktreesDir, automakerDir, links >>
        /\ UNCHANGED notCreate

\* lines 193-195 and 200-213: fs.access(mainAutomaker)
CreateAutomaker(p) ==
    /\ cpc[p] = "automaker"
    /\ IF automakerDir
         THEN /\ cpc' = [ cpc EXCEPT ![p] = "symlink" ]
              /\ UNCHANGED responses
         ELSE CreateRespond(p, Success(p, CreateResult(p)))
    /\ UNCHANGED << cbody, sanitizedName, branchExists, cmds >>
    /\ UNCHANGED createEnv
    /\ UNCHANGED notCreate

\* CreateSymlink with a link that could not be made handed to the outer catch
CreateSymlinkFatal(p) ==
    /\ cpc[p] = "symlink"
    /\ \/ /\ cmds' = Append(cmds, Cmd(p, FsSymlink(sanitizedName[p]), TRUE))
          /\ links' = links \cup { sanitizedName[p] }
          /\ CreateRespond(p, Success(p, CreateResult(p)))
       \/ /\ cmds' = Append(cmds, Cmd(p, FsSymlink(sanitizedName[p]), FALSE))
          /\ CreateCatch(p)
          /\ UNCHANGED links
    /\ UNCHANGED << cbody, sanitizedName, branchExists >>
    /\ UNCHANGED << isRepo, worktreesDir, dirs, branches, checkedOut,
                    automakerDir >>
    /\ UNCHANGED notCreate

\* lines 196-213: the link, made or not, and the response
CreateSymlink(p) ==
    /\ cpc[p] = "symlink"
    /\ \E ok \in BOOLEAN :
        /\ cmds' = Append(cmds, Cmd(p, FsSymlink(sanitizedName[p]), ok))
        /\ links' = IF ok THEN links \cup { sanitizedName[p] } ELSE links
    /\ CreateRespond(p, Success(p, CreateResult(p)))
    /\ UNCHANGED << cbody, sanitizedName, branchExists >>
    /\ UNCHANGED << isRepo, worktreesDir, dirs, branches, checkedOut,
                    automakerDir >>
    /\ UNCHANGED notCreate

\* the steps of invocation p but the arrival of its request
CreateSteps(p) ==
    \/ CreateIsGitRepo(p)
    \/ CreateMkdir(p)
    \/ CreateAccess(p)
    \/ CreateVerify(p)
    \/ CreateAdd(p)
    \/ CreateAutomaker(p)
    \/ CreateSymlink(p)

\* one request to /create
CreateNext ==
    \/ CreateRequest(1, CreateBodies(NamesOf(NameChars, MaxNameLen)))
    \/ CreateSteps(1)

\* the second request arrives when the first has been answered
SecondRequest == cpc[1] = "done" /\ CreateRequest(2, FewCreateBodies)

\* two requests to /create, one after the other
CreateTwiceNext ==
    \/ CreateRequest(1, FewCreateBodies)
    \/ CreateSteps(1)
    \/ SecondRequest
    \/ CreateSteps(2)

\* req.body of requests whose branch names give one directory, a-
SameDirBodies ==
    [ projectPath : { ProjectPath },
      branchName : { << "a", "+" >>, << "a", "=" >> },
      baseBranch : { Undefined } ]

\* index.ts lines 19-36: the router hands every request to its handler at
\* once, so the steps of two invocations of /create come in any order
CreateTwoNext ==
    \/ CreateRequest(1, SameDirBodies)
    \/ CreateRequest(2, SameDirBodies)
    \/ CreateSteps(1)
    \/ CreateSteps(2)

----------------------------------------------------------------------------
\* Properties of POST /create

\* the characters a directory name keeps: [A-Za-z0-9_-]
AllowedInDirName == { "a", "Z", "9", "_", "-" }

IsWorktreeAdd(c) ==
    Len(c.argv) >= 3 /\ SubSeq(c.argv, 1, 3) = Words(<< "git", "worktree", "add" >>)

IsSymlink(c) == c.argv[1] = T("fs.symlink")

\* the branch and the directory git worktree add is given
AddBranch(c) == AddArgs(c.argv).branch
AddPath(c) == AddArgs(c.argv).path

\* invocation p has derived its directory name
Derived(p) == cpc[p] \notin { "idle", "isGitRepo" } /\ sanitizedName[p] # Undefined

\* invocation p has answered with success
Created(p) ==
    \E i \in 1..Len(responses) : responses[i].proc = p /\ responses[i].success

\* C9: the directory name derived from branchName has its length, keeps
\* every character of [A-Za-z0-9_-] in its place and has '-' in the place of
\* every other one; git worktree add is given that directory and the
\* branchName of the request as it came, and the descriptor returned carries
\* that directory and that same branchName.
C9_DirSanitizedBranchKept ==
    \A p \in Procs :
        Derived(p) =>
            LET name == cbody[p].branchName
                dir == sanitizedName[p]
            IN  /\ Len(dir) = Len(name)
                /\ \A i \in 1..Len(name) :
                     dir[i] = IF name[i] \in AllowedInDirName THEN name[i] ELSE "-"
                /\ \A i \in 1..Len(cmds) :
                     cmds[i].proc = p /\ IsWorktreeAdd(cmds[i]) =>
                         /\ AddBranch(cmds[i]) = name
                         /\ AddPath(cmds[i]) = WorktreesDirPath \o << "/" >> \o dir
                /\ \A i \in 1..Len(responses) :
                     responses[i].proc = p /\ responses[i].success =>
                         /\ responses[i].result.branch = name
                         /\ responses[i].result.path =
                                WorktreesDirPath \o << "/" >> \o dir

\* the second request names the directory the first one has made
SameDirAgain ==
    /\ Created(1)
    /\ cpc[2] # "idle"
    /\ \A i \in 1..Len(cbody[2].branchName) :
         Len(cbody[1].branchName) = Len(cbody[2].branchName)
         /\ ( cbody[1].branchName[i] = cbody[2].branchName[i]
              \/ { cbody[1].branchName[i], cbody[2].branchName[i] }
                     \cap AllowedInDirName = { } )
    /\ Len(cbody[1].branchName) = Len(cbody[2].branchName)

\* C10: after a create that succeeded, a second create whose branch name
\* gives the same directory (the same name, or another one as a/b and a.b)
\* is answered 400 with success false, runs no git worktree add and makes no
\* link, and the directory of the first stays bound to the first's branch.
C10_SecondCreateConflicts ==
    SameDirAgain =>
        /\ \A i \in 1..Len(cmds) :
             cmds[i].proc = 2 => ~IsWorktreeAdd(cmds[i]) /\ ~IsSymlink(cmds[i])
        /\ sanitizedName[1] \in dirs
        /\ checkedOut[sanitizedName[1]] = cbody[1].branchName
        /\ cpc[2] = "done" =>
             \E i \in 1..Len(responses) :
                 /\ responses[i].proc = 2
                 /\ responses[i].status = 400
                 /\ ~responses[i].success
                 /\ \A j \in 1..Len(responses) :
                      responses[j].proc = 2 => j = i

\* a+ was made into a worktree with its link, and a= has been asked for and
\* answered
C10_Witness ==
    /\ SameDirAgain
    /\ cpc[2] = "done"
    /\ cbody[1].branchName = << "a", "+" >>
    /\ cbody[2].branchName = << "a", "=" >>
    /\ sanitizedName[1] \in links

\* git worktree add of invocation p has succeeded
Added(p) ==
    \E i \in 1..Len(cmds) :
        cmds[i].proc = p /\ IsWorktreeAdd(cmds[i]) /\ cmds[i].ok

\* git rev-parse --verify of invocation p has succeeded
Verified(p) ==
    \E i \in 1..Len(cmds) :
        /\ cmds[i].proc = p
        /\ cmds[i].argv[2] = T("rev-parse")
        /\ cmds[i].ok

\* the link of invocation p was tried and could not be made
LinkFailed(p) ==
    \E i \in 1..Len(cmds) :
        cmds[i].proc = p /\ IsSymlink(cmds[i]) /\ ~cmds[i].ok

\* C22: once git worktree add has succeeded, the request is answered once,
\* with success and the descriptor of the directory derived from the branch
\* name, the branch name of the request and isNew (the branch did not exist
\* before), whether the main copy has no .automaker directory, or the link
\* could not be made, or it was made.
C22_LinkNeverChangesResponse ==
    \A p \in Procs :
        Added(p) /\ cpc[p] = "done" =>
            /\ \/ ~automakerDir
               \/ LinkFailed(p)
               \/ sanitizedName[p] \in links
            /\ SelectSeq(responses, LAMBDA r : r.proc = p) =
                 << [ proc |-> p, status |-> 200, success |-> TRUE,
                      error |-> Undefined,
                      result |->
                          [ path |-> WorktreesDirPath \o << "/" >>
                                         \o sanitizedName[p],
                            branch |-> cbody[p].branchName,
                            isNew |-> ~Verified(p) ] ] >>

\* the worktree was added, the link could not be made, and the request has
\* been answered
C22_Witness ==
    /\ Added(1)
    /\ LinkFailed(1)
    /\ cpc[1] = "done"
    /\ automakerDir

\* both invocations have derived the same directory and have answered
BothAnswered ==
    /\ cpc[1] = "done" /\ cpc[2] = "done"
    /\ sanitizedName[1] # Undefined
    /\ sanitizedName[1] = sanitizedName[2]

\* invocation q found the directory free, and ran its git worktree add when
\* the one of invocation p had made the directory
LostRace(p, q) ==
    \E i, j \in 1..Len(cmds) :
        /\ i < j
        /\ cmds[i].proc = p /\ IsWorktreeAdd(cmds[i]) /\ cmds[i].ok
        /\ cmds[j].proc = q /\ IsWorktreeAdd(cmds[j])

\* C28: of two requests in progress together whose branch names give the same
\* directory at most one is answered with success, and the one whose git
\* worktree add came second is answered 400, "already exists", not with
\* success and not 500.
C28_RaceLoserGetsConflict ==
    BothAnswered =>
        /\ ~( Created(1) /\ Created(2) )
        /\ \A p, q \in Procs :
             LostRace(p, q) =>
                 \A i \in 1..Len(responses) :
                     responses[i].proc = q =>
                         /\ ~responses[i].success
                         /\ responses[i].status = 400

----------------------------------------------------------------------------
\* POST /run-feature (createRunFeatureHandler)

\* req.body: the two required fields missing, empty or given; useWorktrees
\* left out, true or false; worktreePath left out, empty or given
RunBodies ==
    [ projectPath : { Undefined, << >>, ProjectPath },
      featureId : { Undefined, << >>, T("feature-1"), T("feature-2") },
      useWorktrees : { Absent, Present(TRUE), Present(FALSE) },
      worktreePath : { Undefined, << >>, WorktreeA } ]

\* opt ?? default
Coalesce(opt, default) == IF opt = Absent THEN default ELSE opt[1]

\* UseIsolatedCopy without a look at worktreePath
UseIsolatedCopyIgnoringPath(b) == Coalesce(b.useWorktrees, TRUE)

\* line 41: worktreePath ? false : (useWorktrees ?? true)
UseIsolatedCopy(b) ==
    IF Truthy(b.worktreePath) THEN FALSE ELSE Coalesce(b.useWorktrees, TRUE)

\* lines 37-44: the arguments of executeFeature
ExecuteFeatureArgs(b) ==
    [ projectPath |-> b.projectPath,
      featureId |-> b.featureId,
      useWorktrees |-> UseIsolatedCopy(b),
      isAutoMode |-> FALSE,
      providedWorktreePath |-> b.worktreePath ]

\* what the execution may reject with
ExecutionErrors == { T("agent crashed"), T("worktree missing") }

RunFeatureIdle ==
    /\ rpc = "idle"
    /\ rbody = [ projectPath |-> Undefined ]
    /\ execCalls = << >>
    /\ execState = "none"
    /\ errorLog = << >>

\* lines 13-51: the handler runs to its end without an await: it validates,
\* calls executeFeature, which returns its promise, hangs the catch on it and
\* answers
RunFeatureRequest ==
    /\ rpc = "idle"
    /\ \E b \in RunBodies :
        /\ rbody' = b
        /\ IF ~Truthy(b.projectPath) \/ ~Truthy(b.featureId)
             THEN /\ responses' = Append(responses,
                          Failure(1, 400,
                              T("projectPath and featureId are required")))
                  /\ UNCHANGED << execCalls, execState >>
             ELSE /\ execCalls' = Append(execCalls, ExecuteFeatureArgs(b))
                  /\ execState' = "running"
                  /\ responses' = Append(responses, Success(1, NoResult))
    /\ rpc' = "done"
    /\ UNCHANGED errorLog
    /\ UNCHANGED notRun

\* the execution comes to its end
ExecutionResolves ==
    /\ execState = "running"
    /\ execState' = "resolved"
    /\ UNCHANGED << rpc, rbody, execCalls, errorLog, responses >>
    /\ UNCHANGED notRun

\* Rejected answering the request with the error
RejectedLoudly(err) ==
    /\ errorLog' = Append(errorLog, << rbody.featureId, err >>)
    /\ responses' = Append(responses, Failure(1, 500, err))

\* lines 46-48: the catch hung on the promise
Rejected(err) ==
    /\ errorLog' = Append(errorLog, << rbody.featureId, err >>)
    /\ UNCHANGED responses

\* the execution fails
ExecutionRejects ==
    /\ execState = "running"
    /\ execState' = "rejected"
    /\ \E err \in ExecutionErrors : Rejected(err)
    /\ UNCHANGED << rpc, rbody, execCalls >>
    /\ UNCHANGED notRun

RunFeatureNext ==
    \/ RunFeatureRequest
    \/ ExecutionResolves
    \/ ExecutionRejects

----------------------------------------------------------------------------
\* Properties of POST /run-feature

\* the request carries a projectPath and a featureId
ValidRun == rbody.projectPath \notin { Undefined, << >> }
              /\ rbody.featureId \notin { Undefined, << >> }

\* C15: a request with projectPath and featureId is answered {success:true}
\* in the step that starts the execution, so while the execution is still
\* running; and whatever the execution does then, the acknowledgement stays
\* the only response, and a rejection leaves one entry in the error log.
C15_AckThenLogOnly ==
    rpc = "done" /\ ValidRun =>
        /\ execState \in { "running", "resolved", "rejected" }
        /\ Len(execCalls) = 1
        /\ Len(responses) = 1
        /\ responses[1].success
        /\ responses[1].status = 200
        /\ Len(errorLog) = ( IF execState = "rejected" THEN 1 ELSE 0 )

\* the execution was rejected after the acknowledgement
C15_Witness ==
    /\ rpc = "done"
    /\ execState = "rejected"
    /\ Len(responses) = 1
    /\ responses[1].success

\* the request names an existing worktree
PathSupplied == rbody.worktreePath \notin { Undefined, << >> }

\* C16: executeFeature is asked for a new isolated copy exactly when the
\* request names no worktree and useWorktrees is true or left out; with a
\* worktree named it is given false and that path, whatever useWorktrees is.
C16_IsolationOnlyWithoutPath ==
    \A i \in 1..Len(execCalls) :
        /\ execCalls[i].useWorktrees
             <=> ( ~PathSupplied /\ rbody.useWorktrees # Present(FALSE) )
        /\ PathSupplied =>
             /\ ~execCalls[i].useWorktrees
             /\ execCalls[i].providedWorktreePath = rbody.worktreePath

\* a request with a worktree and useWorktrees = true has started an execution
C16_Witness ==
    /\ Len(execCalls) = 1
    /\ PathSupplied
    /\ rbody.useWorktrees = Present(TRUE)

----------------------------------------------------------------------------
\* The publish dialog of the board (CreatePRDialog.handleCreate,
\* create-pr-dialog.tsx)

\* the longest prError of a result, in fragments
MaxFragments == 2

\* the phrases handleCreate looks for in prError (lines 107-111), character
\* by character
NoCommitsPhrase ==
    << "N", "o", " ", "c", "o", "m", "m", "i", "t", "s", " ", "b", "e",
       "t", "w", "e", "e", "n" >>
AlreadyExistsPhrase ==
    << "a", "l", "r", "e", "a", "d", "y", " ", "e", "x", "i", "s", "t",
       "s" >>
NotLoggedInPhrase ==
    << "n", "o", "t", " ", "l", "o", "g", "g", "e", "d", " ", "i", "n" >>
AuthPhrase == << "a", "u", "t", "h" >>

\* pieces of what gh prints: the phrases, the first of them as a sentence
\* would start it in lower case, a word that has "auth" inside, other text
ErrorFragments ==
    { NoCommitsPhrase,
      << "n", "o", " ", "c", "o", "m", "m", "i", "t", "s", " ", "b", "e",
         "t", "w", "e", "e", "n" >>,
      AlreadyExistsPhrase,
      NotLoggedInPhrase,
      AuthPhrase,
      << "u", "n", "a", "u", "t", "h", "o", "r", "i", "z", "e", "d" >>,
      << "H", "T", "T", "P", " ", "5", "0", "2" >> }

\* the texts of one to n fragments
RECURSIVE ErrorTexts(_)
ErrorTexts(n) ==
    IF n = 0 THEN { << >> }
    ELSE { t \o f : t \in ErrorTexts(n - 1), f \in ErrorFragments }
             \cup ( ErrorTexts(n - 1) \ { << >> } )

PrErrors == ErrorTexts(MaxFragments) \ { << >> }

\* the worktree prop of the dialog
DialogWorktree ==
    [ path |-> T("/repo/.worktrees/feature"), branch |-> T("feature") ]

\* result.result of api.worktree.createPR, as /create-pr builds it: the
\* request made, the output of gh empty, or gh failed with prError
PrResults ==
    { [ branch |-> DialogWorktree.branch, committed |-> c,
        commitHash |-> IF c THEN T("3fa90c1d") ELSE Null, pushed |-> TRUE,
        prUrl |-> u.url, prCreated |-> Truthy(u.url), prError |-> u.err ] :
        c \in BOOLEAN,
        u \in { [ url |-> T("https://github.com/org/repo/pull/1"),
                  err |-> Undefined ],
                [ url |-> << >>, err |-> Undefined ] }
              \cup { [ url |-> Null, err |-> e ] : e \in PrErrors } }

\* a result without result.result
NoPrResult ==
    [ branch |-> Undefined, committed |-> FALSE, commitHash |-> Null,
      pushed |-> FALSE, prUrl |-> Null, prCreated |-> FALSE,
      prError |-> Undefined ]

\* what api.worktree.createPR resolves to: the success envelope, or the
\* failure envelope with or without its error
ApiResults ==
    { [ success |-> TRUE, hasResult |-> TRUE, error |-> Undefined,
        result |-> r ] : r \in PrResults }
    \cup { [ success |-> FALSE, hasResult |-> FALSE, error |-> e,
             result |-> NoPrResult ] :
             e \in { Undefined, T("Failed to push branch: fatal: rejected") } }

\* the descriptions of lines 108, 110, 112 and 120
NoCommitsMessage ==
    T("No new commits to create PR. Make sure your branch has changes compared to the base branch.")
AlreadyExistsMessage == T("A pull request already exists for this branch.")
NotAuthenticatedMessage ==
    T("GitHub CLI not authenticated. Run 'gh auth login' in terminal.")
GhMissingMessage == T("GitHub CLI (gh) may not be installed or authenticated")

Toast(kind, title, description) ==
    [ kind |-> kind, title |-> title, description |-> description ]

\* ClassifyPrError looking for "already exists" first
ClassifyAlreadyExistsFirst(e) ==
    IF Includes(e, AlreadyExistsPhrase) THEN AlreadyExistsMessage
    ELSE IF Includes(e, NoCommitsPhrase) THEN NoCommitsMessage
    ELSE IF Includes(e, NotLoggedInPhrase) \/ Includes(e, AuthPhrase)
        THEN NotAuthenticatedMessage
    ELSE e

\* lines 106-113: errorMessage
ClassifyPrError(e) ==
    IF Includes(e, NoCommitsPhrase) THEN NoCommitsMessage
    ELSE IF Includes(e, AlreadyExistsPhrase) THEN AlreadyExistsMessage
    ELSE IF Includes(e, NotLoggedInPhrase) \/ Includes(e, AuthPhrase)
        THEN NotAuthenticatedMessage
    ELSE e

DialogIdle ==
    /\ dpc = "idle"
    /\ dialogResult =
           [ success |-> FALSE, hasResult |-> FALSE, error |-> Undefined,
             result |-> NoPrResult ]
    /\ dialogError = Null
    /\ dialogPrUrl = Null
    /\ isLoading = FALSE
    /\ toasts = << >>
    /\ dialogOpen = TRUE
    /\ onCreatedCalls = 0

\* lines 64-83: the button is pressed on an open dialog with its worktree;
\* without the API the handler sets the error and ends
HandleCreate ==
    /\ dpc = "idle"
    /\ \E available \in BOOLEAN :
        IF available
            THEN /\ isLoading' = TRUE
                 /\ dialogError' = Null
                 /\ dpc' = "createPR"
            ELSE /\ isLoading' = FALSE
                 /\ dialogError' = T("Worktree API not available")
                 /\ dpc' = "done"
    /\ UNCHANGED << dialogResult, dialogPrUrl, toasts, dialogOpen,
                    onCreatedCalls >>
    /\ UNCHANGED notDialog

\* lines 95-126: the branch was pushed and no pull request was made
BranchPushed(r) ==
    LET pushedToast ==
            Toast("success", T("Branch pushed"),
                  IF r.committed
                      THEN << "Commit " >> \o r.commitHash
                               \o << " pushed to " >> \o r.branch
                      ELSE << "Branch " >> \o r.branch \o << " pushed" >>)
        prToast ==
            IF Truthy(r.prError)
                THEN Toast("error", T("PR creation failed"),
                           ClassifyPrError(r.prError))
                ELSE Toast("info", T("PR not created"), GhMissingMessage)
    IN  /\ toasts' = toasts \o ( IF ~r.prCreated
                                    THEN << pushedToast, prToast >>
                                    ELSE << pushedToast >> )
        /\ onCreatedCalls' = onCreatedCalls + 1
        /\ dialogOpen' = FALSE
        /\ UNCHANGED << dialogError, dialogPrUrl >>

\* lines 84-134: createPR has resolved
CreatePRResolves ==
    /\ dpc = "createPR"
    /\ \E res \in ApiResults :
        /\ dialogResult' = res
        /\ IF res.success /\ res.hasResult
             THEN IF res.result.prCreated /\ Truthy(res.result.prUrl)
                    THEN /\ dialogPrUrl' = res.result.prUrl
                         /\ toasts' = Append(toasts,
                                Toast("success", T("Pull request created!"),
                                      << "PR created from " >>
                                          \o res.result.branch))
                         /\ onCreatedCalls' = onCreatedCalls + 1
                         /\ UNCHANGED << dialogError, dialogOpen >>
                    ELSE BranchPushed(res.result)
             ELSE /\ dialogError' =
                        Or(res.error, T("Failed to create pull request"))
                  /\ UNCHANGED << dialogPrUrl, toasts, dialogOpen,
                                  onCreatedCalls >>
    /\ isLoading' = FALSE
    /\ dpc' = "done"
    /\ UNCHANGED notDialog

\* lines 130-134: createPR has rejected
CreatePRRejects ==
    /\ dpc = "createPR"
    /\ \E message \in { T("Failed to fetch"), T("Failed to create PR") } :
        dialogError' = message
    /\ isLoading' = FALSE
    /\ dpc' = "done"
    /\ UNCHANGED << dialogResult, dialogPrUrl, toasts, dialogOpen,
                    onCreatedCalls >>
    /\ UNCHANGED notDialog

DialogNext ==
    \/ HandleCreate
    \/ CreatePRResolves
    \/ CreatePRRejects

----------------------------------------------------------------------------
\* Properties of the publish dialog

\* the phrase occurs in the text, character for character
HasPhrase(text, phrase) ==
    \E i \in 1..Len(text) :
        /\ i + Len(phrase) - 1 <= Len(text)
        /\ \A k \in 1..Len(phrase) : text[i + k - 1] = phrase[k]

\* the prError the dialog was handed, if it was handed one
ShownPrError ==
    /\ dpc = "done"
    /\ dialogResult.success
    /\ Truthy(dialogResult.result.prError)

\* the descriptions of the error toasts shown
ErrorDescriptions ==
    LET shown == SelectSeq(toasts, LAMBDA t : t.kind = "error")
    IN  [ i \in 1..Len(shown) |-> shown[i].description ]

\* the description a prError is to be shown with, given the phrase that
\* stands for a request without commits
DescriptionFor(e, noCommits) ==
    IF HasPhrase(e, noCommits)
        THEN T("No new commits to create PR. Make sure your branch has changes compared to the base branch.")
    ELSE IF HasPhrase(e, AlreadyExistsPhrase)
        THEN T("A pull request already exists for this branch.")
    ELSE IF HasPhrase(e, NotLoggedInPhrase) \/ HasPhrase(e, AuthPhrase)
        THEN T("GitHub CLI not authenticated. Run 'gh auth login' in terminal.")
    ELSE e

\* C21 as stated: a prError that contains "no commits between" is shown as
\* the nothing-to-publish message, else one that contains "already exists"
\* as the request-already-open message, else one that contains "not logged
\* in" or "auth" as the authentication message, and any other as it came.
C21_ClassifiedBySubstring ==
    ShownPrError =>
        ErrorDescriptions =
            << DescriptionFor(dialogResult.result.prError,
                   << "n", "o", " ", "c", "o", "m", "m", "i", "t",
                      "s", " ", "b", "e", "t", "w", "e", "e", "n" >>) >>

\* C21 with the phrase as the code has it: a prError that contains "No
\* commits between", with its capital N, is shown as the nothing-to-publish
\* message, else one that contains "already exists" as the
\* request-already-open message, else one that contains "not logged in" or
\* "auth" as the authentication message, and any other as it came; the
\* phrases are compared character for character.
C21_ClassifiedCaseSensitively ==
    ShownPrError =>
        ErrorDescriptions =
            << DescriptionFor(dialogResult.result.prError,
                   << "N", "o", " ", "c", "o", "m", "m", "i", "t",
                      "s", " ", "b", "e", "t", "w", "e", "e", "n" >>) >>

\* a prError with "No commits between" and "already exists" in it was shown
\* as the nothing-to-publish message
C21_Witness ==
    /\ ShownPrError
    /\ HasPhrase(dialogResult.result.prError, AlreadyExistsPhrase)
    /\ HasPhrase(dialogResult.result.prError, NoCommitsPhrase)
    /\ ErrorDescriptions = << NoCommitsMessage >>

----------------------------------------------------------------------------
\* Specifications

\* one request to /create-pr
PublishNext == Publish(1)

PublishSpecInit == PublishInit /\ BoardIdle /\ ListIdle /\ CreateIdle /\ RunFeatureIdle
        /\ DialogIdle

SpecPublish == PublishSpecInit /\ [][PublishNext]_vars


PublishIdle ==
    /\ PublishInit
    /\ remoteCfg = [ origin |-> NoRemote, upstream |-> NoRemote ]

\* one request to /create-pr in a repository without remotes, every command
\* returning: the handler is resumed after each await
PublishLiveSpecInit ==
    PublishIdle /\ BoardIdle /\ ListIdle /\ CreateIdle /\ RunFeatureIdle
        /\ DialogIdle

SpecPublishLive ==
    PublishLiveSpecInit /\ [][PublishNext]_vars /\ WF_vars(PublishNext)

\* two requests to /create-pr in progress together
PublishTwoSpecInit == PublishIdle /\ BoardIdle /\ ListIdle /\ CreateIdle /\ RunFeatureIdle
        /\ DialogIdle

SpecPublishTwo == PublishTwoSpecInit /\ [][PublishTwoNext]_vars

\* renders of the board
BoardNext == Project \/ ChangeWorktree

BoardSpecInit == PublishIdle /\ BoardInit /\ ListIdle /\ CreateIdle /\ RunFeatureIdle
        /\ DialogIdle

SpecBoard == BoardSpecInit /\ [][BoardNext]_vars

BacklogSpecInit == PublishIdle /\ BacklogInit /\ ListIdle /\ CreateIdle /\ RunFeatureIdle
        /\ DialogIdle

SpecBacklog == BacklogSpecInit /\ [][BoardNext]_vars

\* one request to /list
ListSpecInit == PublishIdle /\ BoardIdle /\ ListInit /\ CreateIdle /\ RunFeatureIdle
        /\ DialogIdle

SpecList == ListSpecInit /\ [][ListNext]_vars

ListLocalsIdle ==
    /\ records = << >>
    /\ lpc = "idle"
    /\ lbody = [ projectPath |-> Undefined, includeDetails |-> FALSE ]
    /\ worktrees = << >>
    /\ wtIndex = 0

CreateSpecInit ==
    PublishIdle /\ BoardIdle /\ ListLocalsIdle /\ CreateInit(BOOLEAN)
        /\ RunFeatureIdle /\ DialogIdle

SpecCreate == CreateSpecInit /\ [][CreateNext]_vars

CreateTwiceSpecInit ==
    PublishIdle /\ BoardIdle /\ ListLocalsIdle /\ CreateInit({ TRUE })
        /\ RunFeatureIdle /\ DialogIdle

SpecCreateTwice == CreateTwiceSpecInit /\ [][CreateTwiceNext]_vars

\* two requests to /create in progress together
CreateTwoSpecInit ==
    PublishIdle /\ BoardIdle /\ ListLocalsIdle /\ CreateInit({ TRUE })
        /\ RunFeatureIdle /\ DialogIdle

SpecCreateTwo == CreateTwoSpecInit /\ [][CreateTwoNext]_vars

\* one request to /run-feature
RunFeatureSpecInit ==
    PublishIdle /\ BoardIdle /\ ListIdle /\ CreateIdle /\ RunFeatureIdle
        /\ DialogIdle

SpecRunFeature == RunFeatureSpecInit /\ [][RunFeatureNext]_vars

\* one press of the button of the publish dialog
DialogSpecInit ==
    PublishIdle /\ BoardIdle /\ ListIdle /\ CreateIdle /\ RunFeatureIdle
        /\ DialogIdle

SpecDialog == DialogSpecInit /\ [][DialogNext]_vars

====
